---- MODULE Spec2Model ----
(***************************************************************************)
(* A model of the slacktivate specification compiler                       *)
(* (src/src/slacktivate/input): the record helpers of input/helpers.py,    *)
(* the config sections of input/parsing.py and the compile pipeline of     *)
(* input/config.py (SlacktivateConfig.__init__).                           *)
(*                                                                         *)
(* Data representation.                                                    *)
(*  - A Python str is a sequence of tokens (words and symbols): the email  *)
(*    "a@x" is <<"a", "@", "x">>, the template "phd-{{ year }}" is         *)
(*    <<"phd", "-", "{{", "year", "}}">>.  Substring tests, formatting,    *)
(*    template rendering and glob matching are computed on the tokens.     *)
(*  - A field value is Str(s) or List(l) (a list of strings).              *)
(*  - A dict (a record, the vars mapping) is a sequence of entries         *)
(*    [n |-> name, v |-> value] in insertion order, names distinct.        *)
(*  - A collection of records (a list or a dict keyed by a string) is      *)
(*    [keyed |-> BOOLEAN, rows |-> sequence of [k |-> key, r |-> record]]; *)
(*    the rows of a list carry the key None.                               *)
(***************************************************************************)
EXTENDS Naturals, Sequences, FiniteSets

VARIABLES
    pc,                 \* position of SlacktivateConfig.__init__
    _config,            \* self._config: the settings section of the document
    _vars,              \* self._vars
    _alternate_emails,  \* self._alternate_emails
    _users,             \* self._users
    _groups,            \* self._groups
    _channels,          \* self._channels
    loaded,             \* history: new_users of every source loaded so far
    last,               \* history: the configuration and result of the last step
    call,               \* arguments and result of a helper called on its own
    _users_cache_by_email,  \* macros/provision.py: the users of the workspace by email
    _users_cache_by_id,     \* macros/provision.py: the users of the workspace by id
    slack               \* the workspace behind the Slack APIs, and the calls that changed it

\* the module globals of macros/provision.py and the workspace
provision == <<_users_cache_by_email, _users_cache_by_id, slack>>

vars == <<pc, _config, _vars, _alternate_emails, _users, _groups, _channels, loaded, last, call,
          provision>>

(***************************************************************************)
(* Bounds of the model.                                                    *)
(***************************************************************************)
MaxFields == 2
MaxRecords == 2
MaxSections == 4
MaxKeys == 4
MaxFiles == 3
MaxMtime == 3
MaxPieces == 3
MaxCalls == 2
MaxTries == 3

(***************************************************************************)
(* Strings, values, dicts.                                                 *)
(***************************************************************************)
\* Python's None where a str is expected
None == <<"<None>">>

\* Python's None where a dict is expected
NoneRecord == <<[n |-> "<None>", v |-> [t |-> "str", s |-> <<>>, l |-> <<>>]]>>

Str(s) == [t |-> "str", s |-> s, l |-> <<>>]

List(l) == [t |-> "list", s |-> <<>>, l |-> l]

\* key in d
Has(d, key) == \E i \in 1..Len(d) : d[i].n = key

\* d[key]
Get(d, key) == d[CHOOSE i \in 1..Len(d) : d[i].n = key].v

\* d[key] = value: an existing key keeps its position
SetItem(d, key, value) ==
    IF Has(d, key)
    THEN [i \in 1..Len(d) |-> IF d[i].n = key THEN [n |-> key, v |-> value] ELSE d[i]]
    ELSE Append(d, [n |-> key, v |-> value])

\* a record that is no dict but a str (a source whose contents is a list of
\* strings), held as one entry under a name no field bears
ScalarRecord(str) == <<[n |-> "<str>", v |-> [t |-> "str", s |-> str, l |-> <<>>]]>>

\* issubclass(type(record), dict)
IsDict(record) == ~(Len(record) = 1 /\ record[1].n = "<str>")

\* the elements of a sequence
Elems(seq) == {seq[i] : i \in 1..Len(seq)}

(***************************************************************************)
(* merge_dict (input/helpers.py).  The result is                           *)
(* [raised |-> BOOLEAN, value |-> the merged record, on |-> the field of   *)
(* the ValueError].                                                        *)
(***************************************************************************)
\* a plausible slip: list fields concatenated without the membership test
list_union_concat(l, value, i) == l \o value

\* a plausible slip: list fields overridden like any other field
list_union_override(l, value, i) == value

RECURSIVE list_union(_, _, _)
\* for v in value: if v not in l: l.append(v)
list_union(l, value, i) ==
    IF i > Len(value) THEN l
    ELSE list_union(IF value[i] \in Elems(l) THEN l ELSE Append(l, value[i]),
                    value, i + 1)

RECURSIVE merge_loop(_, _, _, _)
\* for (key, value) in dest.items(): ...
merge_loop(result, dest, i, only_exact_merge) ==
    IF i > Len(dest) THEN [raised |-> FALSE, value |-> result, on |-> ""]
    ELSE LET key == dest[i].n
             value == dest[i].v
         IN  IF ~Has(result, key)
             THEN merge_loop(SetItem(result, key, value), dest, i + 1, only_exact_merge)
             ELSE IF value.t = "list" /\ Get(result, key).t = "list"
             THEN merge_loop(
                      SetItem(result, key, List(list_union(Get(result, key).l, value.l, 1))),
                      dest, i + 1, only_exact_merge)
             ELSE IF only_exact_merge /\ Get(result, key) # value
             THEN [raised |-> TRUE, value |-> <<>>, on |-> key]
             ELSE merge_loop(SetItem(result, key, value), dest, i + 1, only_exact_merge)

\* a plausible slip: the exact-merge test never raises
merge_dict_lenient(src, dest, only_exact_merge) ==
    IF src = NoneRecord THEN [raised |-> FALSE, value |-> dest, on |-> ""]
    ELSE IF dest = NoneRecord THEN [raised |-> FALSE, value |-> src, on |-> ""]
    ELSE merge_loop(src, dest, 1, FALSE)

merge_dict(src, dest, only_exact_merge) ==
    IF src = NoneRecord THEN [raised |-> FALSE, value |-> dest, on |-> ""]
    ELSE IF dest = NoneRecord THEN [raised |-> FALSE, value |-> src, on |-> ""]
    ELSE merge_loop(src, dest, 1, only_exact_merge)

(***************************************************************************)
(* Template rendering (render_jinja2, input/helpers.py).  The patterns of  *)
(* the model are literals and the expressions {{ name }}, {{ 2024 }} (an   *)
(* integer literal) and {{ vars.X }}; jinja2.Template uses the default     *)
(* Undefined, which renders an unknown name as the empty string.           *)
(***************************************************************************)
\* the tokens jinja2 reads as integer literals
Numerals == {"2023", "2024"}

RECURSIVE join_reprs(_, _)
\* the items of str(list): 'a', 'b'
join_reprs(l, i) ==
    IF i > Len(l) THEN <<>>
    ELSE (IF i > 1 THEN <<",">> ELSE <<>>) \o <<"'">> \o l[i] \o <<"'">> \o join_reprs(l, i + 1)

\* str(value), the text jinja2 writes for a value
StrOf(value) ==
    IF value.t = "str" THEN value.s ELSE <<"[">> \o join_reprs(value.l, 1) \o <<"]">>

\* "{{{{ {} }}}}".format(x)
format_ref(x) == <<"{{">> \o x \o <<"}}">>

\* the value of one {{ ... }} expression in the context (**data, vars=vars)
evaluate(expr, data, vars_) ==
    IF Len(expr) = 1 /\ expr[1] \in Numerals THEN expr
    ELSE IF Len(expr) = 1
    THEN IF data # NoneRecord /\ Has(data, expr[1]) THEN StrOf(Get(data, expr[1])) ELSE <<>>
    ELSE IF Len(expr) = 3 /\ expr[1] = "vars" /\ expr[2] = "."
    THEN IF Has(vars_, expr[3]) THEN StrOf(Get(vars_, expr[3])) ELSE <<>>
    ELSE IF Len(expr) > 1 /\ expr[1] = "["
    THEN expr
    ELSE <<>>

\* the position of the "}}" closing the expression opened at i
CloseOf(p, i) ==
    IF \E j \in (i + 1)..Len(p) : p[j] = "}}"
    THEN CHOOSE j \in (i + 1)..Len(p) :
            p[j] = "}}" /\ \A k \in (i + 1)..(j - 1) : p[k] # "}}"
    ELSE Len(p) + 1

RECURSIVE render_from(_, _, _, _)
render_from(p, i, data, vars_) ==
    IF i > Len(p) THEN <<>>
    ELSE IF p[i] = "{{"
    THEN evaluate(SubSeq(p, i + 1, CloseOf(p, i) - 1), data, vars_)
             \o render_from(p, CloseOf(p, i) + 1, data, vars_)
    ELSE <<p[i]>> \o render_from(p, i + 1, data, vars_)

\* render_jinja2(jinja2_pattern, data, vars): vars None stands for dict(); for
\* data that is neither None, a list nor a dict no branch returns: None
render_jinja2(jinja2_pattern, data, vars_) ==
    IF data # NoneRecord /\ ~IsDict(data) THEN None
    ELSE render_from(jinja2_pattern, 1, data, IF vars_ = NoneRecord THEN <<>> ELSE vars_)

(***************************************************************************)
(* Keying of records (unindex_data, reindex_user_data,                     *)
(* deduplicate_user_data; input/helpers.py).                               *)
(***************************************************************************)
\* "@" in value: a substring of a str, an element of a list
ContainsAt(value) ==
    IF value.t = "str" THEN "@" \in Elems(value.s) ELSE <<"@">> \in Elems(value.l)

AsList(records) == [keyed |-> FALSE, rows |-> [i \in 1..Len(records) |-> [k |-> None, r |-> records[i]]]]

\* the records of a collection, in order
Records(data) == [i \in 1..Len(data.rows) |-> data.rows[i].r]

unindex_data(data) == IF data.keyed THEN AsList(Records(data)) ELSE data

\* a plausible slip: the "@" heuristic tried before the record's own key field
pick_key_pattern_email_first(record, key_pattern) ==
    IF key_pattern # None THEN key_pattern
    ELSE IF \E i \in 1..Len(record) : ContainsAt(record[i].v)
    THEN format_ref(<<record[CHOOSE i \in 1..Len(record) :
                         /\ ContainsAt(record[i].v)
                         /\ \A j \in 1..(i - 1) : ~ContainsAt(record[j].v)].n>>)
    ELSE IF Has(record, "key") THEN Get(record, "key").s
    ELSE format_ref(StrOf(record[1].v))

\* a plausible slip: the last field holding "@" instead of the first
pick_key_pattern_last_at(record, key_pattern) ==
    IF key_pattern # None THEN key_pattern
    ELSE IF Has(record, "key") THEN Get(record, "key").s
    ELSE IF \E i \in 1..Len(record) : ContainsAt(record[i].v)
    THEN format_ref(<<record[CHOOSE i \in 1..Len(record) :
                         /\ ContainsAt(record[i].v)
                         /\ \A j \in (i + 1)..Len(record) : ~ContainsAt(record[j].v)].n>>)
    ELSE format_ref(StrOf(record[1].v))

\* pick_key_pattern of reindex_user_data, for a record that is a dict or a
\* str (unmodify_default holds in every call: None for the latter)
pick_key_pattern(record, key_pattern) ==
    IF key_pattern # None THEN key_pattern
    ELSE IF ~IsDict(record) THEN None
    ELSE IF Has(record, "key") THEN Get(record, "key").s
    ELSE IF \E i \in 1..Len(record) : ContainsAt(record[i].v)
    THEN format_ref(<<record[CHOOSE i \in 1..Len(record) :
                         /\ ContainsAt(record[i].v)
                         /\ \A j \in 1..(i - 1) : ~ContainsAt(record[j].v)].n>>)
    ELSE format_ref(StrOf(record[1].v))

\* pick_key of reindex_user_data: no vars are handed to render_jinja2
pick_key(record, key_pattern) ==
    render_jinja2(pick_key_pattern(record, key_pattern), record, NoneRecord)

\* rows[k] = r for a dict under construction: an existing key keeps its position
PutRow(rows, k, r) ==
    IF \E i \in 1..Len(rows) : rows[i].k = k
    THEN [i \in 1..Len(rows) |-> IF rows[i].k = k THEN [k |-> k, r |-> r] ELSE rows[i]]
    ELSE Append(rows, [k |-> k, r |-> r])

RECURSIVE reindex_rows(_, _, _, _)
\* { pick_key(record): record for record in unindex_data(user_data) }
reindex_rows(records, key, i, acc) ==
    IF i > Len(records) THEN acc
    ELSE reindex_rows(records, key, i + 1, PutRow(acc, pick_key(records[i], key), records[i]))

\* a plausible slip: the records keyed None are left out and the others kept
reindex_user_data_partial(user_data, key) ==
    [keyed |-> TRUE,
     rows |-> SelectSeq(reindex_rows(Records(unindex_data(user_data)), key, 1, <<>>),
                        LAMBDA row : row.k # None)]

reindex_user_data(user_data, key) ==
    LET reindexed_user_data == reindex_rows(Records(unindex_data(user_data)), key, 1, <<>>)
    IN  IF \A i \in 1..Len(reindexed_user_data) : reindexed_user_data[i].k # None
        THEN [keyed |-> TRUE, rows |-> reindexed_user_data]
        ELSE user_data

deduplicate_user_data(user_data, key) ==
    IF user_data.keyed
    THEN IF key # None THEN reindex_user_data(user_data, key) ELSE user_data
    ELSE unindex_data(reindex_user_data(user_data, key))

(***************************************************************************)
(* Filtering (refilter_user_data, input/helpers.py).  A yaql query of the  *)
(* model is the selection of the records whose field f equals v,           *)
(* [f |-> f, v |-> v]; yaql reads a field the record lacks as null.        *)
(***************************************************************************)
\* an absent optional value of a config section
NoneValue == [t |-> "none", s |-> <<>>, l |-> <<>>]

\* an absent filter
NoFilter == [f |-> "<None>", v |-> NoneValue]

\* expression.evaluate(data=user_data)
yaql_evaluate(filter_query, records) ==
    SelectSeq(records,
              LAMBDA r : Has(r, filter_query.f) /\ Get(r, filter_query.f) = filter_query.v)

refilter_user_data(user_data, filter_query, reindex) ==
    LET filtered_user_data ==
            AsList(yaql_evaluate(filter_query, Records(unindex_data(user_data))))
    IN  IF reindex THEN reindex_user_data(filtered_user_data, None)
        ELSE filtered_user_data

(***************************************************************************)
(* The alias table (SlacktivateConfig.__init__, input/config.py) and its   *)
(* use by UserSourceConfig._post_process (input/parsing.py).  The table is *)
(* [index |-> the dict's entries [k |-> alias, row |-> number of its row], *)
(*  rows |-> the rows, each a list of emails]: the dict's values are the   *)
(* row objects, which _post_process extends in place.  A record's          *)
(* alternate_emails field is the row object: it shows the row as the loop  *)
(* over the records of its source left it.                                 *)
(***************************************************************************)
RECURSIVE dict_of_emails(_, _, _, _)
\* { email: email_row for email_row in lst_of_emails for email in email_row }
dict_of_emails(rows, i, j, acc) ==
    IF i > Len(rows) THEN acc
    ELSE IF j > Len(rows[i]) THEN dict_of_emails(rows, i + 1, 1, acc)
    ELSE dict_of_emails(rows, i, j + 1,
            IF \E n \in 1..Len(acc) : acc[n].k = rows[i][j]
            THEN [n \in 1..Len(acc) |->
                     IF acc[n].k = rows[i][j] THEN [k |-> rows[i][j], row |-> i] ELSE acc[n]]
            ELSE Append(acc, [k |-> rows[i][j], row |-> i]))

\* self._alternate_emails for the rows of the alternate_emails setting
alias_table(rows) == [index |-> dict_of_emails(rows, 1, 1, <<>>), rows |-> rows]

\* alternate_emails.get(email): the number of the row, 0 for None
alias_get(table, email) ==
    IF \E n \in 1..Len(table.index) : table.index[n].k = email
    THEN table.index[CHOOSE n \in 1..Len(table.index) : table.index[n].k = email].row
    ELSE 0

\* the upper-case letters the strings of the model are written with
Uppers == <<"A", "B", "E", "F", "L", "R", "S", "T", "U">>

\* their lower-case forms, position by position
Lowers == <<"a", "b", "e", "f", "l", "r", "s", "t", "u">>

\* str.lower on one token
LowerToken(tok) ==
    IF \E i \in 1..Len(Uppers) : Uppers[i] = tok
    THEN Lowers[CHOOSE i \in 1..Len(Uppers) : Uppers[i] = tok]
    ELSE tok

\* email.lower()
Lower(str) == [i \in 1..Len(str) |-> LowerToken(str[i])]

\* the row found for an email: alternate_emails.get(email) or
\* alternate_emails.get(email.lower())
ae_lookup(table, email) ==
    IF alias_get(table, email) # 0 THEN alias_get(table, email)
    ELSE alias_get(table, Lower(email))

RECURSIVE resolve_aliases(_, _, _, _)
\* the loop over the rows of a source; the result is [records, table]
resolve_aliases(records, i, table, acc) ==
    IF i > Len(records) THEN [records |-> acc, table |-> table]
    ELSE LET user_row == records[i]
             email == Get(user_row, "email").s
             row == ae_lookup(table, email)
             extended == IF email \in Elems(table.rows[row]) THEN table.rows[row]
                         ELSE Append(table.rows[row], email)
         IN  IF ~Has(user_row, "email") \/ Get(user_row, "email").t # "str"
             THEN resolve_aliases(records, i + 1, table, Append(acc, user_row))
             ELSE IF row = 0
             THEN resolve_aliases(records, i + 1, table, Append(acc, user_row))
             ELSE resolve_aliases(records, i + 1,
                      [table EXCEPT !.rows[row] = extended],
                      Append(acc, SetItem(SetItem(user_row, "email", Str(extended[1])),
                                          "alternate_emails", List(extended))))

\* the alternate emails loop of _post_process on the records of one source.
\* user_row["alternate_emails"] is the row object itself, which the loop
\* extends in place: once the loop is over, every resolved record of the
\* source shows the row as the loop left it.
alias_records(records, table) ==
    LET resolved == resolve_aliases(records, 1, table, <<>>)
        Row(i) == IF Has(records[i], "email") /\ Get(records[i], "email").t = "str"
                  THEN ae_lookup(table, Get(records[i], "email").s)
                  ELSE 0
    IN  [records |-> [i \in 1..Len(records) |->
                         IF Row(i) = 0 THEN resolved.records[i]
                         ELSE SetItem(resolved.records[i], "alternate_emails",
                                      List(resolved.table.rows[Row(i)]))],
         table |-> resolved.table]

(***************************************************************************)
(* UserSourceConfig (input/parsing.py).  A source section is               *)
(* [contents |-> the records its contents decode to, key |-> pattern or    *)
(*  None, fields |-> NoFields or a dict of name -> Str(pattern) or         *)
(*  List(patterns), filter |-> query or NoFilter].                         *)
(***************************************************************************)
\* an absent fields entry
NoFields == NoneRecord

RECURSIVE render_all(_, _, _, _)
\* list(map(formatter, field_pattern))
render_all(patterns, record, vars_, i) ==
    IF i > Len(patterns) THEN <<>>
    ELSE <<render_jinja2(patterns[i], record, vars_)>> \o render_all(patterns, record, vars_, i + 1)

RECURSIVE new_fields_of_prepend(_, _, _, _, _)
\* a plausible slip: the renderings put before the field's previous values
new_fields_of_prepend(record, fields, vars_, i, new_fields) ==
    IF i > Len(fields) THEN new_fields
    ELSE LET field_name == fields[i].n
             field_pattern == fields[i].v
             current_field_value ==
                 IF ~Has(record, field_name) THEN <<>>
                 ELSE IF Get(record, field_name).t = "str" THEN <<Get(record, field_name).s>>
                 ELSE Get(record, field_name).l
         IN  new_fields_of_prepend(record, fields, vars_, i + 1,
                 IF field_pattern.t = "str"
                 THEN SetItem(new_fields, field_name,
                              Str(render_jinja2(field_pattern.s, record, vars_)))
                 ELSE SetItem(new_fields, field_name,
                              List(render_all(field_pattern.l, record, vars_, 1)
                                       \o current_field_value)))

RECURSIVE new_fields_of(_, _, _, _, _)
\* the loop of __expand_record building new_fields
new_fields_of(record, fields, vars_, i, new_fields) ==
    IF i > Len(fields) THEN new_fields
    ELSE LET field_name == fields[i].n
             field_pattern == fields[i].v
             current_field_value ==
                 IF ~Has(record, field_name) THEN <<>>
                 ELSE IF Get(record, field_name).t = "str" THEN <<Get(record, field_name).s>>
                 ELSE Get(record, field_name).l
         IN  new_fields_of(record, fields, vars_, i + 1,
                 IF field_pattern.t = "str"
                 THEN SetItem(new_fields, field_name,
                              Str(render_jinja2(field_pattern.s, record, vars_)))
                 ELSE SetItem(new_fields, field_name,
                              List(current_field_value
                                       \o render_all(field_pattern.l, record, vars_, 1))))

RECURSIVE dict_update(_, _, _)
\* record.update(new_fields)
dict_update(record, new_fields, i) ==
    IF i > Len(new_fields) THEN record
    ELSE dict_update(SetItem(record, new_fields[i].n, new_fields[i].v), new_fields, i + 1)

\* __expand_record of _post_process
expand_record(record, fields, vars_) ==
    dict_update(record, new_fields_of(record, fields, vars_, 1, <<>>), 1)

\* for record in iterable: record["key"] = key_pattern
store_key(data, key_pattern) ==
    [data EXCEPT !.rows = [i \in 1..Len(data.rows) |->
        [k |-> data.rows[i].k, r |-> SetItem(data.rows[i].r, "key", Str(key_pattern))]]]

\* __expand_record applied to every record of a list or a dict, the keys kept
expand_all(data, fields, vars_) ==
    [data EXCEPT !.rows = [i \in 1..Len(data.rows) |->
        [k |-> data.rows[i].k, r |-> expand_record(data.rows[i].r, fields, vars_)]]]

\* files.sort(key=os.path.getmtime, reverse=reverse_sort), one insertion: the
\* sort is stable, in both directions
insert_file(sorted, file, reverse_sort) ==
    LET before == SelectSeq(sorted, LAMBDA f : IF reverse_sort THEN f.mtime >= file.mtime
                                                 ELSE f.mtime <= file.mtime)
        after == SelectSeq(sorted, LAMBDA f : IF reverse_sort THEN f.mtime < file.mtime
                                                ELSE f.mtime > file.mtime)
    IN  before \o <<file>> \o after

\* a plausible slip: the files sorted by name
sort_files_by_name(files, reverse_sort, i, sorted) ==
    LET Rank(name) == CHOOSE n \in 1..3 : <<"a", "b", "c">>[n] = name
    IN  SelectSeq(files, LAMBDA f : \A g \in Elems(files) : Rank(f.name) <= Rank(g.name))
            \o SelectSeq(files, LAMBDA f : \E g \in Elems(files) : Rank(f.name) > Rank(g.name))

RECURSIVE sort_files(_, _, _, _)
sort_files(files, reverse_sort, i, sorted) ==
    IF i > Len(files) THEN sorted
    ELSE sort_files(files, reverse_sort, i + 1, insert_file(sorted, files[i], reverse_sort))

\* self.get("sort", SLACKTIVATE_DEFAULT_SORT) == SLACKTIVATE_SORT_NEWEST
reverse_sort_of(userconfig) ==
    (IF userconfig.sort = None THEN <<"newest">> ELSE userconfig.sort) = <<"newest">>

\* UserSourceConfig._load for a section with a file locator: files is
\* glob.glob(file_str), in the order the file system lists it, a file being
\* [name, mtime, records |-> what its contents decode to]
load_file(userconfig, files) ==
    AsList(sort_files(files, reverse_sort_of(userconfig), 1, <<>>)[1].records)

\* UserSourceConfig._load for a section with contents
load_contents(userconfig) == AsList(userconfig.contents)

\* UserSourceConfig._post_process; the result is [data, table]
post_process(userconfig, data, vars_, alternate_emails) ==
    LET resolved == alias_records(Records(data), alternate_emails)
        aliased == AsList(resolved.records)
        keyed == IF userconfig.key # None
                 THEN store_key(reindex_user_data(aliased, userconfig.key), userconfig.key)
                 ELSE aliased
        expanded == IF userconfig.fields # NoFields
                    THEN expand_all(keyed, userconfig.fields, vars_)
                    ELSE keyed
        filtered == IF userconfig.filter # NoFilter /\ userconfig.fields # NoFields
                    THEN refilter_user_data(expanded, userconfig.filter, userconfig.key # None)
                    ELSE expanded
    IN  [data |-> filtered, table |-> resolved.table]

RECURSIVE merge_users_update(_, _, _)
\* a plausible slip: the later source's record replaces the directory's
\* (self._users.update(new_users))
merge_users_update(old_users, new_users, i) ==
    IF i > Len(new_users) THEN old_users
    ELSE merge_users_update(PutRow(old_users, new_users[i].k, new_users[i].r),
                            new_users, i + 1)

RECURSIVE merge_users(_, _, _)
\* the merge of new_users into old_users (SlacktivateConfig.__init__)
merge_users(old_users, new_users, i) ==
    IF i > Len(new_users) THEN old_users
    ELSE LET key == new_users[i].k
             user == new_users[i].r
         IN  merge_users(
                 IF ~\E n \in 1..Len(old_users) : old_users[n].k = key
                 THEN Append(old_users, [k |-> key, r |-> user])
                 ELSE PutRow(old_users, key,
                             merge_dict(old_users[CHOOSE n \in 1..Len(old_users) :
                                                      old_users[n].k = key].r,
                                        user, FALSE).value),
                 new_users, i + 1)

(***************************************************************************)
(* UserGroupConfig.compute and ChannelConfig.compute (input/parsing.py).   *)
(* A group section is [name |-> pattern, filter |-> query or NoFilter]; a  *)
(* channel section adds groups (NoneValue, Str(glob) or List(globs)) and   *)
(* private (NoneValue or the document's text).  A computed Group or        *)
(* Channel is the section with name and users replaced.                    *)
(***************************************************************************)
RECURSIVE partition_overwrite(_, _, _, _, _)
\* a plausible slip: subgroup_users[group_name] = [user], dropping the
\* users seen before under the same name
partition_overwrite(records, name, vars_, i, subgroup_users) ==
    IF i > Len(records) THEN subgroup_users
    ELSE LET group_name == render_jinja2(name, records[i], vars_)
         IN  partition_overwrite(records, name, vars_, i + 1,
                 IF \E n \in 1..Len(subgroup_users) : subgroup_users[n].name = group_name
                 THEN [n \in 1..Len(subgroup_users) |->
                          IF subgroup_users[n].name = group_name
                          THEN [name |-> group_name, users |-> <<records[i]>>]
                          ELSE subgroup_users[n]]
                 ELSE Append(subgroup_users, [name |-> group_name, users |-> <<records[i]>>]))

RECURSIVE partition_prepend(_, _, _, _, _)
\* a plausible slip: the user inserted at the head of the membership
partition_prepend(records, name, vars_, i, subgroup_users) ==
    IF i > Len(records) THEN subgroup_users
    ELSE LET group_name == render_jinja2(name, records[i], vars_)
         IN  partition_prepend(records, name, vars_, i + 1,
                 IF \E n \in 1..Len(subgroup_users) : subgroup_users[n].name = group_name
                 THEN [n \in 1..Len(subgroup_users) |->
                          IF subgroup_users[n].name = group_name
                          THEN [name |-> group_name,
                                users |-> <<records[i]>> \o subgroup_users[n].users]
                          ELSE subgroup_users[n]]
                 ELSE Append(subgroup_users, [name |-> group_name, users |-> <<records[i]>>]))

RECURSIVE partition_keep_empty(_, _, _, _, _)
\* a plausible slip: a section without eligible users still yields the entity
\* of its name, with no member
partition_keep_empty(records, name, vars_, i, subgroup_users) ==
    IF Len(records) = 0
    THEN <<[name |-> render_jinja2(name, NoneRecord, vars_), users |-> <<>>]>>
    ELSE IF i > Len(records) THEN subgroup_users
    ELSE LET group_name == render_jinja2(name, records[i], vars_)
         IN  partition_keep_empty(records, name, vars_, i + 1,
                 IF \E n \in 1..Len(subgroup_users) : subgroup_users[n].name = group_name
                 THEN [n \in 1..Len(subgroup_users) |->
                          IF subgroup_users[n].name = group_name
                          THEN [name |-> group_name,
                                users |-> Append(subgroup_users[n].users, records[i])]
                          ELSE subgroup_users[n]]
                 ELSE Append(subgroup_users, [name |-> group_name, users |-> <<records[i]>>]))

RECURSIVE partition(_, _, _, _, _)
\* the loop filling subgroup_users / subchannel_users: a dict from the
\* rendered name to the users that rendered to it
partition(records, name, vars_, i, subgroup_users) ==
    IF i > Len(records) THEN subgroup_users
    ELSE LET group_name == render_jinja2(name, records[i], vars_)
         IN  partition(records, name, vars_, i + 1,
                 IF \E n \in 1..Len(subgroup_users) : subgroup_users[n].name = group_name
                 THEN [n \in 1..Len(subgroup_users) |->
                          IF subgroup_users[n].name = group_name
                          THEN [name |-> group_name,
                                users |-> Append(subgroup_users[n].users, records[i])]
                          ELSE subgroup_users[n]]
                 ELSE Append(subgroup_users, [name |-> group_name, users |-> <<records[i]>>]))

\* target_users of UserGroupConfig.compute
group_target_users(groupconfig, users) ==
    IF groupconfig.filter # NoFilter
    THEN refilter_user_data(users, groupconfig.filter, FALSE)
    ELSE users

\* UserGroupConfig.compute
compute_group(groupconfig, users, vars_) ==
    LET subgroup_users ==
            partition(Records(unindex_data(group_target_users(groupconfig, users))),
                      groupconfig.name, vars_, 1, <<>>)
    IN  [n \in 1..Len(subgroup_users) |->
            [name |-> subgroup_users[n].name,
             users |-> subgroup_users[n].users,
             filter |-> groupconfig.filter]]

RECURSIVE glob_match(_, _, _, _)
\* fnmatch of a name against a pattern whose wildcard is "*"
glob_match(name, pat, i, j) ==
    IF j > Len(pat) THEN i > Len(name)
    ELSE IF pat[j] = "*"
    THEN glob_match(name, pat, i, j + 1)
             \/ (i <= Len(name) /\ glob_match(name, pat, i + 1, j))
    ELSE i <= Len(name) /\ name[i] = pat[j] /\ glob_match(name, pat, i + 1, j + 1)

fnmatch(name, pat) == glob_match(name, pat, 1, 1)

\* group_globs: a str becomes a one-element list
group_globs_of(channelconfig) ==
    IF channelconfig.groups.t = "str" THEN <<channelconfig.groups.s>>
    ELSE channelconfig.groups.l

\* globbed_names: the names of the groups matching some glob
globbed_names(channelconfig, groups) ==
    {groups[n].name : n \in {m \in 1..Len(groups) :
        \E g \in 1..Len(group_globs_of(channelconfig)) :
            fnmatch(groups[m].name, group_globs_of(channelconfig)[g])}}

RECURSIVE chain_users(_, _, _)
\* itertools.chain of the users of the groups whose name is in names
chain_users(groups, names, n) ==
    IF n > Len(groups) THEN <<>>
    ELSE (IF groups[n].name \in names THEN groups[n].users ELSE <<>>)
             \o chain_users(groups, names, n + 1)

\* a plausible slip: the members of the matching groups not deduplicated
channel_candidates_chained(channelconfig, users, groups) ==
    IF channelconfig.groups # NoneValue
    THEN AsList(chain_users(groups, globbed_names(channelconfig, groups), 1))
    ELSE users

\* target_users of ChannelConfig.compute before the filter
channel_candidates(channelconfig, users, groups) ==
    IF channelconfig.groups # NoneValue
    THEN deduplicate_user_data(
             AsList(chain_users(groups, globbed_names(channelconfig, groups), 1)), None)
    ELSE users

\* target_users of ChannelConfig.compute
channel_target_users(channelconfig, users, groups) ==
    IF channelconfig.filter # NoFilter
    THEN refilter_user_data(channel_candidates(channelconfig, users, groups),
                            channelconfig.filter, FALSE)
    ELSE channel_candidates(channelconfig, users, groups)

\* ChannelConfig.compute
compute_channel(channelconfig, users, groups, vars_) ==
    LET subchannel_users ==
            partition(Records(unindex_data(channel_target_users(channelconfig, users, groups))),
                      channelconfig.name, vars_, 1, <<>>)
    IN  [n \in 1..Len(subchannel_users) |->
            [name |-> subchannel_users[n].name,
             users |-> subchannel_users[n].users,
             groups |-> channelconfig.groups,
             filter |-> channelconfig.filter,
             private |-> channelconfig.private]]

(***************************************************************************)
(* The privacy of a channel as channels_ensure computes it                 *)
(* (macros/provision.py).  The document is read with yaml's BaseLoader,    *)
(* under which every scalar is a string: a section's private entry is      *)
(* Str(<<"true">>), never the boolean.                                     *)
(***************************************************************************)
\* the boolean True
PyTrue == [t |-> "bool", s |-> <<"True">>, l |-> <<>>]

\* channel_is_private: False if "private" not in channel_def
\*                     else channel_def.get("private") == True
channel_is_private(channel_def) ==
    IF channel_def.private = NoneValue THEN FALSE ELSE channel_def.private = PyTrue

(***************************************************************************)
(* Construction of the config sections (SlacktivateConfigSection,          *)
(* UserSourceConfig, UserGroupConfig, ChannelConfig; input/parsing.py), as *)
(* parse_specification maps them over the document.  A section under       *)
(* construction is the dict the document holds, its scalars strings: a     *)
(* filter is the text of its query and not yet the selection it stands     *)
(* for.  The outcome is [raised |-> the exception's class, "" for none,    *)
(* field |-> what the message names, section |-> the section built].       *)
(***************************************************************************)
\* _required: a plain field is the list of that one alternative
required_of(cls) ==
    IF cls = "UserSourceConfig" THEN << <<"type">>, <<"file", "contents">> >>
    ELSE << <<"name">> >>

\* _optional
optional_of(cls) ==
    IF cls = "UserSourceConfig" THEN <<"fields", "key", "filter", "sort">>
    ELSE IF cls = "UserGroupConfig" THEN <<"filter">>
    ELSE <<"groups", "private", "filter", "permissions">>

RECURSIVE flatten(_)
\* slacktivate.input.helpers.flatten on a list of lists of names
flatten(lst) == IF lst = <<>> THEN <<>> ELSE Head(lst) \o flatten(Tail(lst))

NoError == [raised |-> "", field |-> <<>>]

\* a plausible slip: a required set of alternatives asks for all its members
validate_fields_all_alternatives(self, cls) ==
    LET missing_required ==
            SelectSeq(required_of(cls), LAMBDA fields : \E f \in Elems(fields) : ~Has(self, f))
        possible_fields == Elems(flatten(required_of(cls)) \o optional_of(cls))
        unexpected == SelectSeq(self, LAMBDA e : e.n \notin possible_fields)
    IN  IF Len(missing_required) > 0
        THEN [raised |-> "SlacktivateConfigError", field |-> flatten(missing_required)]
        ELSE IF Len(unexpected) > 0
        THEN [raised |-> "SlacktivateConfigError", field |-> <<unexpected[1].n>>]
        ELSE NoError

\* SlacktivateConfigSection._validate_fields (_strict is True in every class)
validate_fields(self, cls) ==
    LET missing_required ==
            SelectSeq(required_of(cls), LAMBDA fields : \A f \in Elems(fields) : ~Has(self, f))
        possible_fields == Elems(flatten(required_of(cls)) \o optional_of(cls))
        unexpected == SelectSeq(self, LAMBDA e : e.n \notin possible_fields)
    IN  IF Len(missing_required) > 0
        THEN [raised |-> "SlacktivateConfigError", field |-> flatten(missing_required)]
        ELSE IF Len(unexpected) > 0
        THEN [raised |-> "SlacktivateConfigError", field |-> <<unexpected[1].n>>]
        ELSE NoError

\* the files of the working directory
ExistingFiles == { <<"users", ".", "json">> }

\* jinja2.Template(s) raises no TemplateSyntaxError: every {{ is closed by a
\* }} and holds an expression
parseable_jinja2(str) ==
    \A i \in 1..Len(str) :
        str[i] = "{{" => CloseOf(str, i) <= Len(str) /\ CloseOf(str, i) > i + 1

RECURSIVE paren_depth(_, _, _)
\* the nesting depth after the query's tokens, -1 once a ")" closes nothing
paren_depth(str, i, depth) ==
    IF depth < 0 \/ i > Len(str) THEN depth
    ELSE paren_depth(str, i + 1,
                     IF str[i] = "(" THEN depth + 1
                     ELSE IF str[i] = ")" THEN depth - 1 ELSE depth)

\* the yaql engine parses the query: the model's grammar asks for a query
\* that is not empty and whose parentheses match
parseable_yaql(str) == Len(str) > 0 /\ paren_depth(str, 1, 0) = 0

\* a render that raised nothing
Rendered == [raised |-> "", message |-> <<>>]

RECURSIVE render_strict(_, _, _, _)
\* env.from_string(p).render(**data, vars=vars_) under StrictUndefined, from
\* position i: the first UndefinedError raised, if any.  A name the context
\* lacks is undefined; an attribute of a str, and an attribute the vars
\* lack, is an undefined that names the object.  vars_ None: no vars given.
render_strict(p, i, data, vars_) ==
    IF i > Len(p) THEN Rendered
    ELSE IF p[i] # "{{" THEN render_strict(p, i + 1, data, vars_)
    ELSE LET expr == SubSeq(p, i + 1, CloseOf(p, i) - 1)
             rest == render_strict(p, CloseOf(p, i) + 1, data, vars_)
         IN  IF Len(expr) = 0 \/ expr[1] \in Numerals \/ expr[1] = "[" THEN rest
             ELSE IF expr[1] = "vars" /\ vars_ # NoneRecord
             THEN IF Len(expr) >= 3 /\ expr[2] = "." /\ ~Has(vars_, expr[3])
                  THEN [raised |-> "UndefinedError",
                        message |-> <<"'", "dict object", "'", " has no attribute ",
                                      "'", expr[3], "'">>]
                  ELSE rest
             ELSE IF ~Has(data, expr[1])
             THEN [raised |-> "UndefinedError",
                   message |-> <<"'", expr[1], "'", " is undefined">>]
             ELSE IF Len(expr) >= 3 /\ expr[2] = "."
             THEN [raised |-> "UndefinedError",
                   message |-> <<"'", "str object", "'", " has no attribute ",
                                 "'", expr[3], "'">>]
             ELSE rest

\* "' is undefined" in exc.message
names_undefined(message) ==
    \E i \in 1..(Len(message) - 1) : message[i] = "'" /\ message[i + 1] = " is undefined"

RECURSIVE discover(_, _)
\* the while loop: render with every known field as "", append the field an
\* UndefinedError names (exc.message.split("'")[1]), leave on any other
\* message and when the render completes
discover(p, fields) ==
    LET exc == render_strict(p, 1, [n \in 1..Len(fields) |-> [n |-> fields[n], v |-> Str(<<>>)]],
                             NoneRecord)
    IN  IF exc.raised = "" \/ ~names_undefined(exc.message) THEN fields
        ELSE discover(p, Append(fields, exc.message[2]))

\* find_jinja2_template_fields
find_jinja2_template_fields(jinja2_pattern) == discover(jinja2_pattern, <<>>)

\* UserSourceConfig._validate_fields(vars)
validate_source_fields(self, vars_) ==
    LET file_str == Get(self, "file").s
        file_str_fields == find_jinja2_template_fields(file_str)
        rendered == IF Len(file_str_fields) > 0 THEN render_jinja2(file_str, NoneRecord, vars_)
                    ELSE file_str
    IN  IF validate_fields(self, "UserSourceConfig").raised # ""
        THEN validate_fields(self, "UserSourceConfig")
        ELSE IF /\ Has(self, "file")
                /\ ("vars" \notin Elems(file_str_fields) \/ vars_ # NoneRecord)
                /\ rendered \notin ExistingFiles
        THEN [raised |-> "UserSourceException", field |-> <<"file">>]
        ELSE IF Has(self, "key") /\ ~parseable_jinja2(Get(self, "key").s)
        THEN [raised |-> "UserSourceException", field |-> <<"key">>]
        ELSE NoError

\* UserGroupConfig.__init__ and ChannelConfig.__init__ after the schema: the
\* two asserts
assert_name_and_filter(self, cls) ==
    IF validate_fields(self, cls).raised # "" THEN validate_fields(self, cls)
    ELSE IF Has(self, "name") /\ ~parseable_jinja2(Get(self, "name").s)
    THEN [raised |-> "AssertionError", field |-> <<"name">>]
    ELSE IF Has(self, "filter") /\ ~parseable_yaql(Get(self, "filter").s)
    THEN [raised |-> "AssertionError", field |-> <<"filter">>]
    ELSE NoError

\* cls(value), as parse_specification maps the classes over the sections
construct(cls, value) ==
    IF cls = "UserSourceConfig" THEN validate_source_fields(value, NoneRecord)
    ELSE assert_name_and_filter(value, cls)

(***************************************************************************)
(* Inputs of the helper specifications.                                    *)
(***************************************************************************)
\* the field entries records are built from
MergeEntries ==
    { [n |-> "email", v |-> Str(<<"a", "@", "x">>)],
      [n |-> "role", v |-> Str(<<"ta">>)],
      [n |-> "role", v |-> Str(<<"prof">>)],
      [n |-> "tags", v |-> List(<< <<"grader">> >>)],
      [n |-> "tags", v |-> List(<< <<"admin">>, <<"grader">> >>)],
      [n |-> "tags", v |-> List(<< <<"admin">>, <<"admin">> >>)],
      [n |-> "tags", v |-> Str(<<"grader">>)] }

\* the sequences over S of length at most n
SeqsUpTo(S, n) == UNION {[1..m -> S] : m \in 0..n}

\* the dicts of at most n entries of E: no name occurs twice
DictsOf(E, n) ==
    {d \in SeqsUpTo(E, n) : \A i, j \in 1..Len(d) : d[i].n = d[j].n => i = j}

MergeRecords == DictsOf(MergeEntries, MaxFields)

E(n, v) == [n |-> n, v |-> v]

\* the records reindex_user_data is called on: with and without a key field,
\* with none, one or two fields holding "@", in both orders
KeyRecords ==
    { <<E("email", Str(<<"a", "@", "x">>)), E("name", Str(<<"alice">>))>>,
      <<E("name", Str(<<"bob">>)), E("email", Str(<<"b", "@", "x">>))>>,
      <<E("name", Str(<<"alice">>)), E("contact", Str(<<"c", "@", "x">>)),
        E("email", Str(<<"a", "@", "x">>))>>,
      <<E("tags", List(<< <<"grader">> >>)), E("email", Str(<<"a", "@", "x">>))>>,
      <<E("key", Str(<<"{{", "email", "}}">>)), E("contact", Str(<<"c", "@", "x">>)),
        E("email", Str(<<"a", "@", "x">>))>>,
      <<E("contact", Str(<<"c", "@", "x">>)), E("key", Str(<<"k1">>))>>,
      <<E("email", Str(<<"b", "@", "x">>)), E("key", Str(<<"{{", "name", "}}">>)),
        E("name", Str(<<"bob">>))>>,
      <<E("name", Str(<<"alice">>)), E("team", Str(<<"red">>))>>,
      <<E("name", Str(<<"bob">>)), E("team", Str(<<"red">>))>>,
      <<E("year", Str(<<"2024">>)), E("name", Str(<<"alice">>))>>,
      <<E("name", Str(<<"team">>)), E("team", Str(<<"red">>))>>,
      ScalarRecord(<<"a", "@", "x">>) }

\* the key argument of reindex_user_data
KeyPatterns ==
    { None,
      <<"{{", "email", "}}">>,
      <<"{{", "name", "}}", "-", "{{", "team", "}}">> }

\* the value of `call` in the specifications that call no helper
NoCall == [op |-> "none"]

\* the caches before any refresh, and no workspace
ProvisionIdle ==
    /\ _users_cache_by_email = None
    /\ _users_cache_by_id = None
    /\ slack = <<>>

\* the values of the pipeline's variables in the helper specifications
PipelineIdle ==
    /\ pc = "idle"
    /\ _config = <<>>
    /\ _vars = <<>>
    /\ _alternate_emails = <<>>
    /\ _users = <<>>
    /\ _groups = <<>>
    /\ _channels = <<>>
    /\ loaded = <<>>
    /\ last = [op |-> "none"]
    /\ ProvisionIdle

pipeline == <<pc, _config, _vars, _alternate_emails, _users, _groups, _channels, loaded, last,
              provision>>

(***************************************************************************)
(* Inputs of the compile pipeline: the sections a specification document   *)
(* is made of.                                                             *)
(***************************************************************************)
A_X == <<"a", "@", "x">>
A2_X == <<"a2", "@", "x">>
B_X == <<"b", "@", "x">>
C_X == <<"c", "@", "x">>

\* the vars section
VarsSamples == { <<>>, <<E("X", Str(<<"cos">>))>> }

\* the rows of the alternate_emails setting (none: no setting)
AliasSamples == { <<>>, << <<A_X, A2_X>> >> }

RoleIsTa == [f |-> "role", v |-> Str(<<"ta">>)]

RoleIsProf == [f |-> "role", v |-> Str(<<"prof">>)]

\* the users sections
SourceSamples ==
    { \* two users keyed by their email
      [contents |-> << <<E("email", Str(A_X)), E("role", Str(<<"ta">>)),
                         E("year", Str(<<"2024">>))>>,
                       <<E("email", Str(B_X)), E("role", Str(<<"prof">>)),
                         E("year", Str(<<"2023">>))>> >>,
       key |-> None, fields |-> NoFields, filter |-> NoFilter],
      \* a user of the first source again, with a list field
      [contents |-> << <<E("email", Str(A_X)), E("role", Str(<<"ta">>)),
                         E("tags", List(<< <<"grader">> >>))>> >>,
       key |-> None, fields |-> NoFields, filter |-> NoFilter],
      \* a record whose first field holding "@" is not its email
      [contents |-> << <<E("contact", Str(A_X)), E("email", Str(B_X))>> >>,
       key |-> None, fields |-> NoFields, filter |-> NoFilter],
      \* records without any field holding "@"
      [contents |-> << <<E("name", Str(<<"alice">>)), E("team", Str(<<"red">>))>>,
                       <<E("name", Str(<<"bob">>)), E("team", Str(<<"red">>))>> >>,
       key |-> None, fields |-> NoFields, filter |-> NoFilter],
      \* a key pattern that reads vars, and a derived list field
      [contents |-> << <<E("email", Str(A_X)), E("year", Str(<<"2023">>)),
                         E("tags", List(<< <<"admin">> >>))>>,
                       <<E("email", Str(C_X)), E("role", Str(<<"ta">>)),
                         E("year", Str(<<"2024">>))>> >>,
       key |-> <<"{{", "vars", ".", "X", "}}", "-", "{{", "email", "}}">>,
       fields |-> <<E("tags", List(<< <<"{{", "role", "}}">> >>))>>,
       filter |-> NoFilter],
      \* an alias email, a derived field that reads vars, and a filter
      [contents |-> << <<E("email", Str(A2_X)), E("role", Str(<<"prof">>)),
                         E("year", Str(<<"2024">>))>>,
                       <<E("email", Str(C_X)), E("role", Str(<<"ta">>))>> >>,
       key |-> None,
       fields |-> <<E("dept", Str(<<"{{", "vars", ".", "X", "}}">>))>>,
       filter |-> RoleIsProf] }

\* the groups sections
GroupSamples ==
    [name : { <<"phd", "-", "{{", "year", "}}">>, <<"all">> },
     filter : { NoFilter, RoleIsTa }]

\* the channels sections
ChannelSamples ==
    { [name |-> <<"cohort">>, groups |-> List(<< <<"phd", "-", "*">> >>),
       filter |-> NoFilter, private |-> NoneValue],
      [name |-> <<"c", "-", "{{", "year", "}}">>, groups |-> NoneValue,
       filter |-> RoleIsTa, private |-> Str(<<"true">>)],
      [name |-> <<"everyone">>, groups |-> Str(<<"all">>),
       filter |-> NoFilter, private |-> Str(<<"true">>)],
      [name |-> <<"c", "-", "{{", "year", "}}">>,
       groups |-> List(<< <<"phd", "-", "2024">>, <<"all">> >>),
       filter |-> NoFilter, private |-> NoneValue],
      [name |-> <<"tas">>, groups |-> List(<< <<"phd", "-", "*">> >>),
       filter |-> RoleIsTa, private |-> NoneValue],
      [name |-> <<"staff">>, groups |-> List(<< <<"staff", "-", "*">> >>),
       filter |-> NoFilter, private |-> NoneValue] }

(***************************************************************************)
(* Spec: SlacktivateConfig.__init__ on a document of at most MaxSections   *)
(* users, groups and channels sections (input/config.py).                  *)
(***************************************************************************)
Init ==
    /\ pc = "users"
    /\ _config = <<>>
    /\ _vars \in VarsSamples
    /\ \E rows \in AliasSamples : _alternate_emails = alias_table(rows)
    /\ _users = [keyed |-> TRUE, rows |-> <<>>]
    /\ _groups = <<>>
    /\ _channels = <<>>
    /\ loaded = <<>>
    /\ last = [op |-> "init", n |-> 0]
    /\ call = NoCall
    /\ ProvisionIdle

\* one turn of the loop over the users sections: load, post-process,
\* reindex and merge into self._users
LoadSource(userconfig) ==
    /\ pc = "users"
    /\ last.n < MaxSections
    /\ LET users == post_process(userconfig, load_contents(userconfig),
                                 _vars, _alternate_emails)
           new_users == reindex_user_data(users.data, None)
       IN  /\ _users' = [keyed |-> TRUE, rows |-> merge_users(_users.rows, new_users.rows, 1)]
           /\ _alternate_emails' = users.table
           /\ loaded' = Append(loaded, new_users)
           /\ last' = [op |-> "load", n |-> last.n + 1, cfg |-> userconfig, out |-> new_users]
    /\ UNCHANGED <<pc, _config, _vars, _groups, _channels, call, provision>>

\* a plausible slip: a groups section expanded among the channels sections
ComputeGroup_interleaved(groupconfig) ==
    /\ pc \in {"users", "groups", "channels"}
    /\ last.n < MaxSections
    /\ LET new_groups == compute_group(groupconfig, _users, _vars)
       IN  /\ _groups' = _groups \o new_groups
           /\ last' = [op |-> "group", n |-> last.n + 1, cfg |-> groupconfig, out |-> new_groups]
    /\ pc' = IF pc = "channels" THEN "channels" ELSE "groups"
    /\ UNCHANGED <<_config, _vars, _alternate_emails, _users, _channels, loaded, call, provision>>

\* one turn of the loop over the groups sections
ComputeGroup(groupconfig) ==
    /\ pc \in {"users", "groups"}
    /\ last.n < MaxSections
    /\ LET new_groups == compute_group(groupconfig, _users, _vars)
       IN  /\ _groups' = _groups \o new_groups
           /\ last' = [op |-> "group", n |-> last.n + 1, cfg |-> groupconfig, out |-> new_groups]
    /\ pc' = "groups"
    /\ UNCHANGED <<_config, _vars, _alternate_emails, _users, _channels, loaded, call, provision>>

\* one turn of the loop over the channels sections
ComputeChannel(channelconfig) ==
    /\ pc \in {"users", "groups", "channels"}
    /\ last.n < MaxSections
    /\ LET new_channels == compute_channel(channelconfig, _users, _groups, _vars)
       IN  /\ _channels' = _channels \o new_channels
           /\ last' = [op |-> "channel", n |-> last.n + 1, cfg |-> channelconfig,
                       out |-> new_channels]
    /\ pc' = "channels"
    /\ UNCHANGED <<_config, _vars, _alternate_emails, _users, _groups, loaded, call, provision>>

Next ==
    \/ \E userconfig \in SourceSamples : LoadSource(userconfig)
    \/ \E groupconfig \in GroupSamples : ComputeGroup(groupconfig)
    \/ \E channelconfig \in ChannelSamples : ComputeChannel(channelconfig)

Spec == Init /\ [][Next]_vars

(***************************************************************************)
(* SpecMerge: merge_dict called on any two records.                        *)
(***************************************************************************)
InitMerge ==
    /\ PipelineIdle
    /\ \E src \in MergeRecords, dest \in MergeRecords, only_exact_merge \in BOOLEAN :
          call = [op |-> "args", src |-> src, dest |-> dest,
                  only_exact_merge |-> only_exact_merge,
                  ret |-> [raised |-> FALSE, value |-> <<>>, on |-> ""],
                  swapped |-> [raised |-> FALSE, value |-> <<>>, on |-> ""]]

\* merge_dict(src, dest, only_exact_merge), and the same call with the records swapped
CallMergeDict ==
    /\ call.op = "args"
    /\ call' = [call EXCEPT !.op = "merge_dict",
                            !.ret = merge_dict(call.src, call.dest, call.only_exact_merge),
                            !.swapped = merge_dict(call.dest, call.src, call.only_exact_merge)]
    /\ UNCHANGED pipeline

NextMerge == CallMergeDict

SpecMerge == InitMerge /\ [][NextMerge]_vars

(***************************************************************************)
(* SpecKey: reindex_user_data called on any list of records.               *)
(***************************************************************************)
InitKey ==
    /\ PipelineIdle
    /\ \E records \in SeqsUpTo(KeyRecords, MaxRecords), key \in KeyPatterns :
          call = [op |-> "args", user_data |-> AsList(records), key |-> key,
                  ret |-> AsList(<<>>)]

CallReindexUserData ==
    /\ call.op = "args"
    /\ call' = [call EXCEPT !.op = "reindex_user_data",
                            !.ret = reindex_user_data(call.user_data, call.key)]
    /\ UNCHANGED pipeline

NextKey == CallReindexUserData

SpecKey == InitKey /\ [][NextKey]_vars

(***************************************************************************)
(* SpecLoad: UserSourceConfig.load called on one users section, for any    *)
(* vars and any alias table.                                               *)
(***************************************************************************)
A_UPPER_X == <<"A", "@", "x">>

\* the contents of the sections of SpecLoad
LoadContents ==
    { << <<E("email", Str(A_X)), E("role", Str(<<"ta">>)), E("year", Str(<<"2024">>))>>,
         <<E("email", Str(B_X)), E("role", Str(<<"prof">>)), E("year", Str(<<"2023">>))>> >>,
      \* two emails of one alias group, the second in another case
      << <<E("email", Str(A2_X)), E("role", Str(<<"prof">>)),
           E("tags", List(<< <<"admin">> >>))>>,
         <<E("email", Str(A_UPPER_X)), E("role", Str(<<"ta">>))>> >>,
      \* a record without email, with a string where a derived list goes
      << <<E("name", Str(<<"alice">>)), E("role", Str(<<"ta">>)),
           E("tags", Str(<<"grader">>))>>,
         <<E("email", Str(C_X)), E("role", Str(<<"ta">>))>> >> }

\* the fields entries of the sections of SpecLoad
LoadFields ==
    { NoFields,
      <<E("dept", Str(<<"{{", "vars", ".", "X", "}}">>))>>,
      \* a field replaced by a literal, and a list that reads the same field
      <<E("role", Str(<<"staff">>)),
        E("tags", List(<< <<"{{", "role", "}}">>, <<"t", "-", "{{", "vars", ".", "X", "}}">> >>))>> }

\* the users sections of SpecLoad
LoadSamples ==
    [contents : LoadContents,
     key : {None, <<"{{", "email", "}}">>},
     fields : LoadFields,
     filter : {NoFilter, RoleIsTa, RoleIsProf}]

InitLoad ==
    /\ PipelineIdle
    /\ \E userconfig \in LoadSamples, vars_ \in VarsSamples, rows \in AliasSamples :
          call = [op |-> "args", userconfig |-> userconfig, vars |-> vars_,
                  alternate_emails |-> alias_table(rows),
                  ret |-> AsList(<<>>), table |-> alias_table(<<>>)]

\* userconfig.load(vars, alternate_emails): _load, then _post_process
CallLoad ==
    /\ call.op = "args"
    /\ LET data == post_process(call.userconfig, load_contents(call.userconfig),
                                call.vars, call.alternate_emails)
       IN  call' = [call EXCEPT !.op = "load", !.ret = data.data, !.table = data.table]
    /\ UNCHANGED pipeline

NextLoad == CallLoad

SpecLoad == InitLoad /\ [][NextLoad]_vars

(***************************************************************************)
(* SpecParse: one section of the document constructed by                   *)
(* parse_specification, for any section of at most MaxKeys entries.        *)
(***************************************************************************)
\* the entries the sections are made of, in the order of the document
SectionEntries ==
    << E("type", Str(<<"json">>)),
       E("name", Str(<<"phd", "-", "{{", "year", "}}">>)),
       E("name", Str(<<"phd", "-", "{{", "year">>)),
       E("file", Str(<<"users", ".", "json">>)),
       E("file", Str(<<"missing", ".", "json">>)),
       E("file", Str(<<"{{", "vars", ".", "X", "}}", ".", "json">>)),
       E("contents", Str(<<"[]">>)),
       E("key", Str(<<"{{", "email", "}}">>)),
       E("key", Str(<<"{{", "email">>)),
       E("filter", Str(<<"$", ".", "where", "(", "$", ".", "role", "=", "ta", ")">>)),
       E("filter", Str(<<"$", ".", "where", "(", "$", ".", "role", "=">>)),
       E("groups", Str(<<"phd", "-", "*">>)),
       E("private", Str(<<"true">>)),
       E("color", Str(<<"red">>)) >>

\* the sections: at most MaxKeys entries, no name twice
RawSections ==
    {SelectSeq(SectionEntries, LAMBDA e : e \in S) :
        S \in {T \in SUBSET Elems(SectionEntries) :
                  /\ Cardinality(T) <= MaxKeys
                  /\ \A a, b \in T : a.n = b.n => a = b}}

SectionClasses == {"UserSourceConfig", "UserGroupConfig", "ChannelConfig"}

InitParse ==
    /\ PipelineIdle
    /\ \E cls \in SectionClasses, value \in RawSections :
          call = [op |-> "args", cls |-> cls, value |-> value, ret |-> NoError]

\* cls(value): the section is built, or the construction raises
Construct ==
    /\ call.op = "args"
    /\ call' = [call EXCEPT !.op = "construct", !.ret = construct(call.cls, call.value)]
    /\ UNCHANGED pipeline

NextParse == Construct

SpecParse == InitParse /\ [][NextParse]_vars

(***************************************************************************)
(* SpecFile: UserSourceConfig.load called on a section whose file locator  *)
(* matches at most MaxFiles files, of modification times 1..MaxMtime.      *)
(***************************************************************************)
FileNames == {"a", "b", "c"}

\* the records of the snapshot of that name
RecordsOfFile(name) ==
    << <<E("email", Str(<<name, "@", "x">>)), E("snapshot", Str(<<name>>))>> >>

\* what glob.glob may return: the matching files, no name twice, in any order
GlobResults ==
    {files \in UNION {[1..m -> [name : FileNames, mtime : 1..MaxMtime]] : m \in 1..MaxFiles} :
        \A i, j \in 1..Len(files) : files[i].name = files[j].name => i = j}

InitFile ==
    /\ PipelineIdle
    /\ \E files \in GlobResults, sort \in {None, <<"newest">>, <<"oldest">>} :
          call = [op |-> "args",
                  userconfig |-> [file |-> <<"*", ".", "json">>, sort |-> sort, key |-> None,
                                  fields |-> NoFields, filter |-> NoFilter],
                  files |-> [i \in 1..Len(files) |->
                                [name |-> files[i].name, mtime |-> files[i].mtime,
                                 records |-> RecordsOfFile(files[i].name)]],
                  ret |-> AsList(<<>>)]

\* userconfig.load(vars, alternate_emails) without vars and aliases: _load
\* of the file selected, then _post_process
CallLoadFile ==
    /\ call.op = "args"
    /\ call' = [call EXCEPT
                   !.op = "load_file",
                   !.ret = post_process(call.userconfig,
                                        load_file(call.userconfig, call.files),
                                        <<>>, alias_table(<<>>)).data]
    /\ UNCHANGED pipeline

NextFile == CallLoadFile

SpecFile == InitFile /\ [][NextFile]_vars

(***************************************************************************)
(* SpecConfig: a document compiled by SlacktivateConfig.__init__, once or  *)
(* twice, and the compiled model read through its properties               *)
(* (input/config.py).  _config is config_data, the object __init__ is      *)
(* given and keeps: its settings are rewritten in place.  The              *)
(* alternate_emails entry of the settings is held aside, as the rows the   *)
(* text splits into.                                                       *)
(***************************************************************************)
\* the boolean False
PyFalse == [t |-> "bool", s |-> <<"False">>, l |-> <<>>]

\* a plausible slip: the settings compared without lower()
parse_booleans_exact(settings) ==
    [i \in 1..Len(settings) |->
        IF settings[i].v.t # "str" THEN settings[i]
        ELSE IF settings[i].v.s = <<"t", "r", "u", "e">>
        THEN [n |-> settings[i].n, v |-> PyTrue]
        ELSE IF settings[i].v.s = <<"f", "a", "l", "s", "e">>
        THEN [n |-> settings[i].n, v |-> PyFalse]
        ELSE settings[i]]

\* the loop "Parsing booleans?": the str entries that lower to "true" or
\* "false" are replaced by the boolean, in the settings themselves
parse_booleans(settings) ==
    [i \in 1..Len(settings) |->
        IF settings[i].v.t # "str" THEN settings[i]
        ELSE IF Lower(settings[i].v.s) = <<"t", "r", "u", "e">>
        THEN [n |-> settings[i].n, v |-> PyTrue]
        ELSE IF Lower(settings[i].v.s) = <<"f", "a", "l", "s", "e">>
        THEN [n |-> settings[i].n, v |-> PyFalse]
        ELSE settings[i]]

\* one turn of the loop over the users sections: the users of the section
\* are merged into those loaded so far, the alias table is the one the
\* section's post-processing returned
merge_section_users(rows, users) ==
    [rows |-> merge_users(rows, reindex_user_data(users.data, None).rows, 1),
     table |-> users.table]

RECURSIVE load_users(_, _, _, _)
\* the loop over the users sections, from the users and the alias table
\* in acc
load_users(sources, n, vars_, acc) ==
    IF n > Len(sources) THEN acc
    ELSE load_users(sources, n + 1, vars_,
                    merge_section_users(acc.rows,
                        post_process(sources[n], load_contents(sources[n]), vars_,
                                     acc.table)))

RECURSIVE compute_groups(_, _, _, _)
\* the loop over the groups sections
compute_groups(groupconfigs, n, users, vars_) ==
    IF n > Len(groupconfigs) THEN <<>>
    ELSE compute_group(groupconfigs[n], users, vars_)
             \o compute_groups(groupconfigs, n + 1, users, vars_)

RECURSIVE compute_channels(_, _, _, _, _)
\* the loop over the channels sections
compute_channels(channelconfigs, n, users, groups, vars_) ==
    IF n > Len(channelconfigs) THEN <<>>
    ELSE compute_channel(channelconfigs[n], users, groups, vars_)
             \o compute_channels(channelconfigs, n + 1, users, groups, vars_)

\* a plausible slip: the section itself updated with the name of the last
\* entity it expanded to, instead of a deep copy of it
section_after_compute_in_place(self, out) ==
    IF out = <<>> THEN self ELSE [self EXCEPT !.name = out[Len(out)].name]

\* a section of config_data after its compute: every entity is a
\* copy.deepcopy of the section, the section is left as it was
section_after_compute(self, out) == self

\* a plausible slip: the property hands out the object itself
deepcopy_shared(x) == [same |-> TRUE, obj |-> x]

\* copy.deepcopy(x): a new object, equal to x, that shares nothing with it
deepcopy(x) == [same |-> FALSE, obj |-> x]

\* the str values of a settings entry, a value that is not a str
SettingValues ==
    { Str(<<"t", "r", "u", "e">>), Str(<<"T", "r", "u", "E">>),
      Str(<<"F", "A", "L", "S", "E">>), Str(<<"T", "r", "u", "e", "s">>),
      List(<< <<"t", "r", "u", "e">> >>) }

SettingEntries ==
    [n : {"extend_channel_memberships", "keep_customized_photos"}, v : SettingValues]

\* the documents: settings alone, and users, groups and channels sections
\* under one setting
Documents ==
    { [settings |-> settings, vars |-> <<>>, alternate_emails |-> <<>>,
       users |-> <<>>, groups |-> <<>>, channels |-> <<>>] :
          settings \in DictsOf(SettingEntries, MaxFields) }
    \cup
    { [settings |-> <<E("extend_channel_memberships", Str(<<"T", "r", "u", "e">>))>>,
       vars |-> <<E("X", Str(<<"cos">>))>>, alternate_emails |-> rows,
       users |-> users, groups |-> groups, channels |-> channels] :
          rows \in AliasSamples \ {<<>>},
          users \in {u \in [1..2 -> SourceSamples] :
                        /\ u[1].key = None /\ u[1].fields = NoFields
                        /\ Len(u[1].contents) = 2 /\ Has(u[1].contents[1], "email")
                        /\ u[2].fields # NoFields},
          groups \in {g \in [1..2 -> GroupSamples] :
                         g[1].name # <<"all">> /\ g[2].name = <<"all">>
                             /\ g[2].filter = NoFilter},
          channels \in {c \in [1..2 -> ChannelSamples] :
                           /\ c[1].groups.t = "list" /\ c[1].filter = NoFilter
                           /\ c[1].name # <<"staff">>
                           /\ c[2].groups = NoneValue} }

\* what call holds before any property is read: first is the value each
\* property returned when first read, mutated the properties whose returned
\* value a caller has changed
NoRead ==
    [op |-> "none", mutated |-> {},
     first |-> [users |-> [seen |-> FALSE], groups |-> [seen |-> FALSE],
                channels |-> [seen |-> FALSE], settings |-> [seen |-> FALSE]]]

InitConfig ==
    /\ pc = "document"
    /\ _config \in Documents
    /\ _vars = <<>>
    /\ _alternate_emails = <<>>
    /\ _users = <<>>
    /\ _groups = <<>>
    /\ _channels = <<>>
    /\ loaded = <<>>
    /\ last = [op |-> "parse", n |-> 0, document |-> _config]
    /\ call = NoRead
    /\ ProvisionIdle

\* SlacktivateConfig(config_data): on the object compiled before, or on
\* the document parsed again
Compile(again) ==
    /\ pc \in {"document", "compiled"}
    /\ last.n < 2
    /\ \E config_data \in {IF again THEN last.document ELSE _config} :
       \E acc \in {load_users(config_data.users, 1, config_data.vars,
                              [rows |-> <<>>,
                               table |-> alias_table(config_data.alternate_emails)])} :
           /\ _vars' = config_data.vars
           /\ _users' = [keyed |-> TRUE, rows |-> acc.rows]
           /\ _alternate_emails' = acc.table
           /\ _groups' = compute_groups(config_data.groups, 1, _users', _vars')
           /\ _channels' = compute_channels(config_data.channels, 1, _users', _groups', _vars')
           /\ _config' =
                  [config_data EXCEPT
                      !.settings = parse_booleans(config_data.settings),
                      !.groups = [n \in 1..Len(config_data.groups) |->
                                     section_after_compute(config_data.groups[n],
                                         compute_group(config_data.groups[n], _users',
                                                       _vars'))],
                      !.channels = [n \in 1..Len(config_data.channels) |->
                                       section_after_compute(config_data.channels[n],
                                           compute_channel(config_data.channels[n], _users',
                                                           _groups', _vars'))]]
           /\ last' = [op |-> "compile", n |-> last.n + 1, document |-> last.document,
                       first |-> IF last.n = 0 THEN <<_users', _groups', _channels'>>
                                               ELSE last.first]
    /\ pc' = "compiled"
    /\ call' = NoRead
    /\ UNCHANGED <<loaded, provision>>

\* the object behind a property
field_of(prop) ==
    IF prop = "users" THEN _users
    ELSE IF prop = "groups" THEN _groups
    ELSE IF prop = "channels" THEN _channels
    ELSE _config.settings

\* the properties users, groups, channels and settings
Read(prop) ==
    /\ pc = "compiled"
    /\ call' = [op |-> "read", prop |-> prop, mutated |-> call.mutated,
                ret |-> deepcopy(field_of(prop)),
                read |-> deepcopy(field_of(prop)).obj,
                first |-> IF call.first[prop].seen THEN call.first
                          ELSE [call.first EXCEPT
                                   ![prop] = [seen |-> TRUE, val |-> field_of(prop)]]]
    /\ UNCHANGED pipeline

\* what a caller may do to a list or dict it holds: empty it, remove its
\* first item, empty its first item
mutations(x) ==
    IF Len(x) = 0 THEN {}
    ELSE {<<>>, Tail(x)}
         \cup (IF "users" \in DOMAIN x[1] THEN {[x EXCEPT ![1].users = <<>>]} ELSE {})
         \cup (IF "r" \in DOMAIN x[1] THEN {[x EXCEPT ![1].r = <<>>]} ELSE {})
         \cup (IF "v" \in DOMAIN x[1] THEN {[x EXCEPT ![1].v = NoneValue]} ELSE {})

\* the caller changes the value the last read returned
Mutate ==
    /\ pc = "compiled"
    /\ call.op = "read"
    /\ \E y \in mutations(IF call.prop = "users" THEN call.ret.obj.rows ELSE call.ret.obj) :
          LET obj == IF call.prop = "users" THEN [call.ret.obj EXCEPT !.rows = y] ELSE y
          IN  /\ call' = [call EXCEPT !.op = "mutated", !.ret.obj = obj,
                                       !.mutated = @ \cup {call.prop}]
              /\ _users' = IF call.ret.same /\ call.prop = "users" THEN obj ELSE _users
              /\ _groups' = IF call.ret.same /\ call.prop = "groups" THEN obj ELSE _groups
              /\ _channels' = IF call.ret.same /\ call.prop = "channels" THEN obj
                              ELSE _channels
              /\ _config' = IF call.ret.same /\ call.prop = "settings"
                            THEN [_config EXCEPT !.settings = obj] ELSE _config
    /\ UNCHANGED <<pc, _vars, _alternate_emails, loaded, last, provision>>

NextConfig ==
    \/ \E again \in BOOLEAN : Compile(again)
    \/ \E prop \in {"users", "groups", "channels", "settings"} : Read(prop)
    \/ Mutate

SpecConfig == InitConfig /\ [][NextConfig]_vars

(***************************************************************************)
(* SpecDiscover: find_jinja2_template_fields called on a pattern of at      *)
(* most MaxPieces pieces (input/helpers.py).                               *)
(***************************************************************************)
\* the pieces a pattern is made of: literals and expressions
Pieces ==
    { <<"data", "/">>, <<".", "json">>,
      <<"{{", "name", "}}">>, <<"{{", "email", "}}">>,
      <<"{{", "2024", "}}">>, <<"{{", "vars", ".", "X", "}}">> }

RECURSIVE concat(_, _)
concat(pieces, n) == IF n > Len(pieces) THEN <<>> ELSE pieces[n] \o concat(pieces, n + 1)

Patterns == {concat(pieces, 1) : pieces \in SeqsUpTo(Pieces, MaxPieces)}

InitDiscover ==
    /\ PipelineIdle
    /\ \E jinja2_pattern \in Patterns :
          call = [op |-> "args", jinja2_pattern |-> jinja2_pattern, ret |-> <<>>]

CallFindFields ==
    /\ call.op = "args"
    /\ call' = [call EXCEPT !.op = "find_jinja2_template_fields",
                            !.ret = find_jinja2_template_fields(call.jinja2_pattern)]
    /\ UNCHANGED pipeline

NextDiscover == CallFindFields

SpecDiscover == InitDiscover /\ [][NextDiscover]_vars

(***************************************************************************)
(* SpecProvision: the macros users_deactivate, users_ensure, groups_ensure *)
(* and channels_ensure called, at most MaxCalls times, on a compiled       *)
(* configuration and a workspace (macros/provision.py).  slack is the      *)
(* workspace: its users as search_users lists them, its channels with the  *)
(* ids of their members, and log, the calls issued that change a           *)
(* workspace.  An id is a str, like an email.                              *)
(***************************************************************************)
SLACK_BOTS_DOMAIN == <<"@", "slack-bots.com">>

\* sub in str
Contains(str, sub) ==
    \E i \in 0..(Len(str) - Len(sub)) : SubSeq(str, i + 1, i + Len(sub)) = sub

\* d[k] = v on a dict held as a sequence of [k, v]
put(d, k, v) ==
    IF \E i \in 1..Len(d) : d[i].k = k
    THEN [i \in 1..Len(d) |-> IF d[i].k = k THEN [k |-> k, v |-> v] ELSE d[i]]
    ELSE Append(d, [k |-> k, v |-> v])

\* k in d
has(d, k) == \E i \in 1..Len(d) : d[i].k = k

\* d[k], for k in d
get(d, k) == d[CHOOSE i \in 1..Len(d) : d[i].k = k].v

RECURSIVE refresh_users_cache(_, _, _)
\* _refresh_users_cache(): both caches rebuilt from search_users, a user
\* under its primary email and under its id
refresh_users_cache(resources, n, cache) ==
    IF n > Len(resources) THEN cache
    ELSE refresh_users_cache(resources, n + 1,
             [by_email |-> put(cache.by_email, resources[n].email, resources[n]),
              by_id |-> put(cache.by_id, resources[n].id, resources[n])])

\* the caches after _refresh_users_cache() on a workspace
cache_of(sl) == refresh_users_cache(sl.users, 1, [by_email |-> <<>>, by_id |-> <<>>])

\* user.get("email", "")
email_of(user) == IF Has(user, "email") THEN Get(user, "email").s ELSE <<>>

\* _lookup_slack_user_id_by_email(email): None when the cache has no such key
lookup_slack_user_id_by_email(cache, email) ==
    IF has(cache.by_email, Lower(email)) THEN get(cache.by_email, Lower(email)).id ELSE None

\* users_to_deactivate of users_deactivate
users_to_deactivate(users, cache, only_active) ==
    LET config_user_emails == {Lower(email_of(users.rows[i].r)) : i \in 1..Len(users.rows)}
        kept == SelectSeq(cache.by_email,
                          LAMBDA e : /\ ~Contains(e.k, SLACK_BOTS_DOMAIN)
                                     /\ e.k \notin config_user_emails
                                     /\ ~(only_active /\ ~e.v.active))
    IN  [i \in 1..Len(kept) |-> kept[i].v]

\* the workspace after user_deactivate on each of the users
deactivate_all(sl, users) ==
    [sl EXCEPT
        !.users = [i \in 1..Len(sl.users) |->
                      IF \E n \in 1..Len(users) : users[n].id = sl.users[i].id
                      THEN [sl.users[i] EXCEPT !.active = FALSE] ELSE sl.users[i]],
        !.log = @ \o [n \in 1..Len(users) |-> [api |-> "patch_user", target |-> users[n].id]]]

\* users_to_create of users_ensure: the configured users whose key, lowered,
\* is the lowered email of no cached user
users_to_create(users, cache) ==
    SelectSeq(users.rows,
              LAMBDA row : Lower(row.k) \notin
                               {Lower(cache.by_email[i].k) : i \in 1..Len(cache.by_email)})

\* the workspace after user_create on each of the rows
create_all(sl, rows) ==
    [sl EXCEPT
        !.users = @ \o [n \in 1..Len(rows) |->
                           [id |-> <<"new">> \o rows[n].k, email |-> email_of(rows[n].r),
                            active |-> TRUE]],
        !.log = @ \o [n \in 1..Len(rows) |-> [api |-> "create_user", target |-> rows[n].k]]]

\* settings.get(name, False), a settings entry being a value of the model
setting_is_true(settings, name) ==
    IF Has(settings, name)
    THEN (Get(settings, name) \notin {PyFalse, NoneValue, Str(<<>>), List(<<>>)})
    ELSE FALSE

\* remove_unspecified_members: the argument, or when it is None the
\* negation of the extend_..._memberships setting
remove_unspecified_members_of(argument, settings, name) ==
    IF argument = "None" THEN ~setting_is_true(settings, name) ELSE argument = "True"

\* the workspace after group_ensure on each group of a name
ensure_groups(sl, groups) ==
    LET named == SelectSeq(groups, LAMBDA group_def : group_def.name # <<>>)
    IN  [sl EXCEPT !.log = @ \o [n \in 1..Len(named) |->
                                    [api |-> "group_ensure", target |-> named[n].name]]]

\* a plausible slip: the members changed in a dry run as well
skips_membership_unless_missing(dry_run, channel_id) == channel_id = None

\* the two tests before the invitations: no channel id, or a dry run
skips_membership(dry_run, channel_id) == channel_id = None \/ dry_run

\* what channels_modifications holds for a name before its first turn
NoModifications ==
    [exists |-> FALSE, created |-> FALSE, dry_run |-> FALSE, diffed |-> FALSE,
     members_ids_existing |-> {}, members_ids_to_invite |-> {}, member_ids_to_kick |-> {}]

RECURSIVE ensure_channels(_, _, _, _, _, _, _, _)
\* the loop of channels_ensure over config.channels, from the workspace and
\* the modifications in acc; channels_by_name is read once, before the loop
ensure_channels(channels, n, acc, channels_by_name, cache, remove_members, dry_run, create_ok) ==
    IF n > Len(channels) THEN acc
    ELSE
    LET channel_def == channels[n]
        channel_name == channel_def.name
        known == has(channels_by_name, channel_name)
        members == IF \E i \in 1..Len(acc.slack.channels) :
                          acc.slack.channels[i].id = get(channels_by_name, channel_name)
                   THEN acc.slack.channels[CHOOSE i \in 1..Len(acc.slack.channels) :
                            acc.slack.channels[i].id = get(channels_by_name, channel_name)].members
                   ELSE {}
        existing_member_ids == IF known THEN {m \in members : has(cache.by_id, m)} ELSE {}
        creates == ~known /\ ~dry_run
        created == /\ creates /\ create_ok
                   /\ \A i \in 1..Len(acc.slack.channels) :
                         acc.slack.channels[i].name # channel_name
        channel_id == IF known THEN get(channels_by_name, channel_name)
                      ELSE IF created THEN <<"new">> \o channel_name ELSE None
        afterCreate ==
            IF ~creates THEN acc.slack
            ELSE [acc.slack EXCEPT
                     !.channels = IF created
                                  THEN Append(@, [name |-> channel_name, id |-> channel_id,
                                                  private |-> channel_is_private(channel_def),
                                                  members |-> {}])
                                  ELSE @,
                     !.log = Append(@, [api |-> "conversations_create",
                                        target |-> channel_name])]
        provided_member_ids ==
            {lookup_slack_user_id_by_email(cache, email_of(channel_def.users[i])) :
                 i \in 1..Len(channel_def.users)} \ {None}
        member_ids_to_invite == provided_member_ids \ existing_member_ids
        member_ids_to_kick == IF remove_members
                              THEN existing_member_ids \ provided_member_ids ELSE {}
        afterMembers ==
            IF skips_membership(dry_run, channel_id) THEN afterCreate
            ELSE [afterCreate EXCEPT
                     !.channels = [i \in 1..Len(@) |->
                                      IF @[i].id = channel_id
                                      THEN [@[i] EXCEPT !.members =
                                               (@ \cup member_ids_to_invite) \ member_ids_to_kick]
                                      ELSE @[i]],
                     !.log = @ \o <<[api |-> "conversations_invite", target |-> channel_id]>>
                               \o (IF member_ids_to_kick = {} THEN <<>>
                                   ELSE <<[api |-> "conversations_kick",
                                           target |-> channel_id]>>)]
        before == IF has(acc.mods, channel_name) THEN get(acc.mods, channel_name)
                  ELSE NoModifications
        entry == IF creates /\ ~created
                 THEN [before EXCEPT !.exists = FALSE, !.created = FALSE,
                                     !.members_ids_existing = {}]
                 ELSE [exists |-> known \/ created, created |-> created,
                       dry_run |-> (~known /\ dry_run) \/ before.dry_run, diffed |-> TRUE,
                       members_ids_existing |-> existing_member_ids,
                       members_ids_to_invite |-> member_ids_to_invite,
                       member_ids_to_kick |-> member_ids_to_kick]
    IN  IF channel_name = <<>>
        THEN ensure_channels(channels, n + 1, acc, channels_by_name, cache,
                             remove_members, dry_run, create_ok)
        ELSE ensure_channels(channels, n + 1,
                             [slack |-> afterMembers, mods |-> put(acc.mods, channel_name, entry)],
                             channels_by_name, cache, remove_members, dry_run, create_ok)

\* channels_list(): the channels of the workspace by name, here their ids
channels_list(sl) ==
    [i \in 1..Len(sl.channels) |-> [k |-> sl.channels[i].name, v |-> sl.channels[i].id]]

\* the records of the configured users
RecA == <<E("email", Str(A_X)), E("role", Str(<<"ta">>))>>

RecB == <<E("email", Str(B_X)), E("role", Str(<<"prof">>))>>

\* the compiled configurations: two users, one group, two channels, the
\* first of a name the workspace may know
ProvisionConfigs ==
    { [users |-> [keyed |-> TRUE, rows |-> <<[k |-> A_X, r |-> RecA], [k |-> B_X, r |-> RecB]>>],
       groups |-> <<[name |-> <<"all">>, users |-> <<RecA, RecB>>, filter |-> NoFilter]>>,
       channels |-> <<[name |-> <<"cohort">>, users |-> <<RecA, RecB>>,
                       groups |-> Str(<<"all">>), filter |-> NoFilter,
                       private |-> NoneValue],
                      [name |-> <<"tas">>, users |-> <<RecA>>, groups |-> NoneValue,
                       filter |-> RoleIsTa, private |-> Str(<<"true">>)]>>,
       settings |-> settings] :
          settings \in { <<>>, <<E("extend_channel_memberships", PyTrue)>> } }

\* the users a workspace may hold: a configured user under an email of the
\* same or of another case, active or not, a second one, a bot, a user the
\* configuration does not describe
WorkspaceUsers ==
    { u1 \o u2 \o u3 \o u4 :
        u1 \in { <<>>, <<[id |-> <<"U1">>, email |-> A_X, active |-> TRUE]>>,
                 <<[id |-> <<"U1">>, email |-> A_X, active |-> FALSE]>>,
                 <<[id |-> <<"U1">>, email |-> A_UPPER_X, active |-> TRUE]>> },
        u2 \in { <<>>, <<[id |-> <<"U2">>, email |-> B_X, active |-> TRUE]>> },
        u3 \in { <<[id |-> <<"U3">>, email |-> <<"bot", "@", "slack-bots.com">>,
                   active |-> TRUE]>> },
        u4 \in { <<[id |-> <<"U4">>, email |-> C_X, active |-> TRUE]>>,
                 <<[id |-> <<"U4">>, email |-> C_X, active |-> FALSE]>> } }

\* the channels a workspace may hold: W9 is a member from another workspace
WorkspaceChannels ==
    { <<>> } \cup
    { <<[name |-> <<"cohort">>, id |-> <<"C1">>, private |-> FALSE, members |-> members]>> :
         members \in { {<<"U1">>, <<"U4">>}, {<<"U2">>, <<"U4">>, <<"W9">>} } }

InitProvision ==
    /\ pc = "compiled"
    /\ \E config \in ProvisionConfigs :
          /\ _config = [settings |-> config.settings]
          /\ _users = config.users
          /\ _groups = config.groups
          /\ _channels = config.channels
    /\ _vars = <<>>
    /\ _alternate_emails = <<>>
    /\ loaded = <<>>
    /\ last = [op |-> "none", n |-> 0]
    /\ call = NoCall
    /\ _users_cache_by_email = None
    /\ _users_cache_by_id = None
    /\ \E users \in WorkspaceUsers, channels \in WorkspaceChannels :
          slack = [users |-> users, channels |-> channels, log |-> <<>>]

config_unchanged ==
    UNCHANGED <<pc, _config, _vars, _alternate_emails, _users, _groups, _channels, loaded, call>>

\* users_deactivate(config, only_active, dry_run)
UsersDeactivate(only_active, dry_run) ==
    /\ pc = "compiled" /\ slack # <<>>
    /\ last.n < MaxCalls
    /\ LET cache == cache_of(slack)
           selected == users_to_deactivate(_users, cache, only_active)
       IN  /\ _users_cache_by_email' = cache.by_email
           /\ _users_cache_by_id' = cache.by_id
           /\ slack' = IF dry_run THEN slack ELSE deactivate_all(slack, selected)
           /\ last' = [op |-> "users_deactivate", n |-> last.n + 1, dry_run |-> dry_run,
                       only_active |-> only_active, before |-> slack, ret |-> selected]
    /\ config_unchanged

\* users_ensure(config, dry_run)
UsersEnsure(dry_run) ==
    /\ pc = "compiled" /\ slack # <<>>
    /\ last.n < MaxCalls
    /\ LET cache == cache_of(slack)
           rows == users_to_create(_users, cache)
       IN  /\ _users_cache_by_email' = cache.by_email
           /\ _users_cache_by_id' = cache.by_id
           /\ slack' = IF dry_run THEN slack ELSE create_all(slack, rows)
           /\ last' = [op |-> "users_ensure", n |-> last.n + 1, dry_run |-> dry_run,
                       before |-> slack, ret |-> rows]
    /\ config_unchanged

\* groups_ensure(config, remove_unspecified_members, dry_run)
GroupsEnsure(dry_run) ==
    /\ pc = "compiled" /\ slack # <<>>
    /\ last.n < MaxCalls
    /\ LET cache == cache_of(slack)
       IN  /\ _users_cache_by_email' = cache.by_email
           /\ _users_cache_by_id' = cache.by_id
           /\ slack' = IF dry_run THEN slack ELSE ensure_groups(slack, _groups)
           /\ last' = [op |-> "groups_ensure", n |-> last.n + 1, dry_run |-> dry_run,
                       before |-> slack,
                       ret |-> IF dry_run THEN <<>>
                               ELSE [n \in 1..Len(_groups) |-> _groups[n].name]]
    /\ config_unchanged

\* channels_ensure(config, remove_unspecified_members, dry_run); create_ok:
\* whether conversations_create succeeds on a name no channel bears
ChannelsEnsure(argument, dry_run, create_ok) ==
    /\ pc = "compiled" /\ slack # <<>>
    /\ last.n < MaxCalls
    /\ LET cache == cache_of(slack)
           remove_unspecified_members ==
               remove_unspecified_members_of(argument, _config.settings,
                                             "extend_channel_memberships")
           done == ensure_channels(_channels, 1, [slack |-> slack, mods |-> <<>>],
                                   channels_list(slack), cache,
                                   remove_unspecified_members, dry_run, create_ok)
       IN  /\ _users_cache_by_email' = cache.by_email
           /\ _users_cache_by_id' = cache.by_id
           /\ slack' = done.slack
           /\ last' = [op |-> "channels_ensure", n |-> last.n + 1, dry_run |-> dry_run,
                       argument |-> argument, before |-> slack, ret |-> done.mods]
    /\ config_unchanged

NextProvision ==
    \/ \E only_active, dry_run \in BOOLEAN : UsersDeactivate(only_active, dry_run)
    \/ \E dry_run \in BOOLEAN : UsersEnsure(dry_run)
    \/ \E dry_run \in BOOLEAN : GroupsEnsure(dry_run)
    \/ \E argument \in {"None", "True", "False"}, dry_run, create_ok \in BOOLEAN :
          ChannelsEnsure(argument, dry_run, create_ok)

SpecProvision == InitProvision /\ [][NextProvision]_vars

(***************************************************************************)
(* SpecRetry: a call wrapped by slack_retry, that is by                    *)
(* backoff.on_exception(backoff.constant, (SCIMApiError, SlackApiError),   *)
(* giveup=slack_do_we_give_up), attempted at most MaxTries times           *)
(* (slack/retry.py).  The decorator sets neither max_tries nor max_time.   *)
(***************************************************************************)
SLACK_RATE_LIMITING_STATUS_CODE == 429

DEFAULT_SECONDS_TO_WAIT == 20

\* the decimal digits and their values
Digits == <<"0", "1", "2", "3", "4", "5", "6", "7", "8", "9">>

DigitValue(c) == (CHOOSE i \in 1..Len(Digits) : Digits[i] = c) - 1

RECURSIVE int_of(_, _)
\* int(text) for a text of digits: the first n characters read as a number
int_of(text, n) == IF n = 0 THEN 0 ELSE 10 * int_of(text, n - 1) + DigitValue(text[n])

\* whether int(text) raises ValueError: the texts of the model are digits,
\* or hold a character that is no digit
raises_ValueError(text) == Len(text) = 0 \/ \E i \in 1..Len(text) : text[i] \notin Elems(Digits)

\* int(headers.get("retry-after", DEFAULT_SECONDS_TO_WAIT)), the default
\* again on ValueError
time_to_wait_of(headers) ==
    IF ~Has(headers, "retry-after") THEN DEFAULT_SECONDS_TO_WAIT
    ELSE IF raises_ValueError(Get(headers, "retry-after").s) THEN DEFAULT_SECONDS_TO_WAIT
    ELSE int_of(Get(headers, "retry-after").s, Len(Get(headers, "retry-after").s))

\* no payload: data is None
NoData == [ok |-> "<None>", error |-> "<None>"]

\* a plausible slip: the payload not looked at
do_we_give_up_aux_status_only(status_code, headers, data) ==
    IF status_code # SLACK_RATE_LIMITING_STATUS_CODE
    THEN [give_up |-> TRUE, slept |-> 0]
    ELSE [give_up |-> FALSE, slept |-> time_to_wait_of(headers)]

\* _do_we_give_up_aux: whether to give up, and the seconds slept before
\* answering; in the payload ok "absent" stands for a payload without ok
do_we_give_up_aux(status_code, headers, data) ==
    IF /\ status_code # SLACK_RATE_LIMITING_STATUS_CODE
       /\ \/ data = NoData
          \/ ~(data.ok = "false" /\ data.error = "ratelimited")
    THEN [give_up |-> TRUE, slept |-> 0]
    ELSE [give_up |-> FALSE, slept |-> time_to_wait_of(headers)]

\* slack_do_we_give_up: a SCIMApiError carries no payload
slack_do_we_give_up(err) ==
    IF err.class = "SlackApiError"
    THEN do_we_give_up_aux(err.status_code, err.headers, err.data)
    ELSE IF err.class = "SCIMApiError"
    THEN do_we_give_up_aux(err.status_code, err.headers, NoData)
    ELSE [give_up |-> TRUE, slept |-> 0]

\* the headers of a response: without retry-after, and with a retry-after
\* of digits, of letters, of a decimal fraction
HeaderSamples ==
    { <<>>, <<E("retry-after", Str(<<"5">>))>>, <<E("retry-after", Str(<<"3", "0">>))>>,
      <<E("retry-after", Str(<<"a", "b", "c">>))>>,
      <<E("retry-after", Str(<<"1", ".", "5">>))>> }

\* what a wrapped call may raise
Errors ==
    [class : {"SlackApiError"}, status_code : {200, 429, 500}, headers : HeaderSamples,
     data : {NoData} \cup [ok : {"absent", "true", "false"}, error : {"ratelimited", "fatal"}]]
    \cup
    [class : {"SCIMApiError"}, status_code : {429, 500}, headers : HeaderSamples,
     data : {NoData}]
    \cup
    [class : {"ValueError"}, status_code : {0}, headers : {<<>>}, data : {NoData}]

InitRetry ==
    /\ PipelineIdle
    /\ call = [op |-> "call", tries |-> 0, outcome |-> "running", slept |-> 0, interval |-> 0]

\* an attempt returns: the wrapper returns its value
AttemptReturns ==
    /\ call.op \in {"call", "raise"} /\ call.outcome = "running"
    /\ call.tries < MaxTries
    /\ call' = [op |-> "return", tries |-> call.tries + 1, outcome |-> "returned",
                slept |-> 0, interval |-> 0]
    /\ UNCHANGED pipeline

\* an attempt raises err: an exception of another class is not caught;
\* one of the two classes is raised again when giveup(err) holds, and else
\* the wrapper sleeps the jittered interval of backoff.constant and goes on
AttemptRaises(err, jitter) ==
    /\ call.op \in {"call", "raise"} /\ call.outcome = "running"
    /\ call.tries < MaxTries
    /\ LET caught == err.class \in {"SCIMApiError", "SlackApiError"}
           answer == slack_do_we_give_up(err)
       IN  call' = [op |-> "raise", tries |-> call.tries + 1, err |-> err,
                    outcome |-> IF caught /\ ~answer.give_up THEN "running" ELSE "raised",
                    slept |-> IF caught THEN answer.slept ELSE 0,
                    interval |-> IF caught /\ ~answer.give_up THEN jitter ELSE 0]
    /\ UNCHANGED pipeline

NextRetry ==
    \/ AttemptReturns
    \/ \E err \in Errors, jitter \in 0..1 : AttemptRaises(err, jitter)

SpecRetry == InitRetry /\ [][NextRetry]_vars

(***************************************************************************)
(* Claims about merge_dict, checked under SpecMerge.                       *)
(***************************************************************************)
Names(d) == {d[i].n : i \in 1..Len(d)}

BothLists(old, new, f) ==
    /\ f \in Names(old) \cap Names(new)
    /\ Get(old, f).t = "list"
    /\ Get(new, f).t = "list"

\* the positions of b holding the first occurrence of an element that is not in a
Fresh(a, b) ==
    {i \in 1..Len(b) : b[i] \notin Elems(a) /\ \A j \in 1..(i - 1) : b[j] # b[i]}

\* u is a followed by the fresh elements of b, in the order of b
IsOrderedUnion(u, a, b) ==
    /\ Len(u) = Len(a) + Cardinality(Fresh(a, b))
    /\ SubSeq(u, 1, Len(a)) = a
    /\ \A i \in Fresh(a, b) :
          u[Len(a) + Cardinality({j \in Fresh(a, b) : j <= i})] = b[i]

\* m is the field-by-field default merge of old and new
IsDefaultMerge(m, old, new) ==
    /\ Names(m) = Names(old) \cup Names(new)
    /\ \A f \in Names(old) \ Names(new) : Get(m, f) = Get(old, f)
    /\ \A f \in Names(new) \ Names(old) : Get(m, f) = Get(new, f)
    /\ \A f \in Names(old) \cap Names(new) :
          IF BothLists(old, new, f)
          THEN /\ Get(m, f).t = "list"
               /\ IsOrderedUnion(Get(m, f).l, Get(old, f).l, Get(new, f).l)
          ELSE Get(m, f) = Get(new, f)

\* the fields on which an exact merge of old and new conflicts
Conflicts(old, new) ==
    {f \in Names(old) \cap Names(new) :
        Get(old, f) # Get(new, f) /\ ~BothLists(old, new, f)}

\* C5: the default merge of two records keeps the fields only in old, adds the
\* fields only in new, turns a field that is a list in both into old's list
\* followed by the elements of new's list not yet present, in order, and
\* gives every other common field the value of new.
C5_DefaultMergeFieldByField ==
    (call.op = "merge_dict" /\ ~call.only_exact_merge) =>
        /\ ~call.ret.raised
        /\ IsDefaultMerge(call.ret.value, call.src, call.dest)

\* C5 witness: a default merge with a list field in both records, whose new list
\* holds a present and an absent element, and a conflicting scalar field.
C5_Witness ==
    /\ call.op = "merge_dict" /\ ~call.only_exact_merge
    /\ \E f \in Names(call.src) \cap Names(call.dest) :
          /\ BothLists(call.src, call.dest, f)
          /\ Fresh(Get(call.src, f).l, Get(call.dest, f).l) # {}
          /\ Elems(Get(call.src, f).l) \cap Elems(Get(call.dest, f).l) # {}
    /\ Conflicts(call.src, call.dest) # {}
    /\ ~call.ret.raised

\* C6: an exact merge raises exactly when some field is in both records with
\* different values and is not a list in both; the error names such a field;
\* otherwise the result is the default merge.
C6_ExactMergeRaisesOnConflict ==
    (call.op = "merge_dict" /\ call.only_exact_merge) =>
        /\ call.ret.raised <=> Conflicts(call.src, call.dest) # {}
        /\ call.ret.raised => call.ret.on \in Conflicts(call.src, call.dest)
        /\ ~call.ret.raised => IsDefaultMerge(call.ret.value, call.src, call.dest)

\* C6 witness: an exact merge that raises although the records also share a
\* list field with different lists.
C6_Witness ==
    /\ call.op = "merge_dict" /\ call.only_exact_merge
    /\ call.ret.raised
    /\ \E f \in Names(call.src) \cap Names(call.dest) :
          BothLists(call.src, call.dest, f) /\ Get(call.src, f) # Get(call.dest, f)

\* C7: merge(A, B) and merge(B, A) agree on every field present in only one
\* record or equal in both, and hold the same set of elements in every field
\* that is a list in both records.
C7_MergeCommutesWithinPolicy ==
    (call.op = "merge_dict" /\ ~call.only_exact_merge) =>
        LET A == call.src
            B == call.dest
            AB == call.ret.value
            BA == call.swapped.value
        IN  /\ ~call.ret.raised /\ ~call.swapped.raised
            /\ Names(AB) = Names(BA)
            /\ \A f \in Names(A) \cup Names(B) :
                  (f \notin Names(A) \cap Names(B) \/ Get(A, f) = Get(B, f))
                      => Get(AB, f) = Get(BA, f)
            /\ \A f \in Names(A) \cap Names(B) :
                  BothLists(A, B, f)
                      => Elems(Get(AB, f).l) = Elems(Get(BA, f).l)

\* C7 witness: two records with different lists in a common field and a field
\* present in only one of them, merged both ways with different results.
C7_Witness ==
    /\ call.op = "merge_dict" /\ ~call.only_exact_merge
    /\ \E f \in Names(call.src) \cap Names(call.dest) :
          /\ BothLists(call.src, call.dest, f)
          /\ Elems(Get(call.src, f).l) # Elems(Get(call.dest, f).l)
    /\ Names(call.src) # Names(call.dest)
    /\ call.ret.value # call.swapped.value

(***************************************************************************)
(* Claims about the keys of records, checked under SpecKey.                *)
(***************************************************************************)
\* every record of the collection is a dict
AllDicts(data) == \A i \in 1..Len(data.rows) : IsDict(data.rows[i].r)

\* the first field of a record whose value holds "@"
FirstAt(r) ==
    CHOOSE i \in 1..Len(r) : ContainsAt(r[i].v) /\ \A j \in 1..(i - 1) : ~ContainsAt(r[j].v)

HasAt(r) == \E i \in 1..Len(r) : ContainsAt(r[i].v)

\* the key a record's own key field stands for: the field's text when it is a
\* literal, the value of the field f when it is {{ f }}
OwnKey(r) ==
    LET c == Get(r, "key").s
    IN  IF "{{" \notin Elems(c) THEN c ELSE StrOf(Get(r, c[2]))

\* the key of a record under the priorities (a) and (b)
PriorityKey(r) == IF Has(r, "key") THEN OwnKey(r) ELSE StrOf(r[FirstAt(r)].v)

\* the collection maps key k to a record, and to record r when `here` holds
MapsKey(data, k, r, here) ==
    \E j \in 1..Len(data.rows) :
        data.rows[j].k = k /\ (here => data.rows[j].r = r)

\* C8: without a key pattern a record with a key field is keyed by that field
\* (rendered against the record) whatever its other fields hold, and a record
\* without one by the value of its first field holding "@".
C8_KeyFieldThenFirstAtField ==
    (call.op = "reindex_user_data" /\ call.key = None /\ AllDicts(call.user_data)) =>
        LET records == Records(call.user_data)
        IN  /\ call.ret.keyed
            /\ \A i \in 1..Len(records) :
                  (Has(records[i], "key") \/ HasAt(records[i]))
                      => MapsKey(call.ret, PriorityKey(records[i]), records[i],
                                 i = Len(records))

\* C8 witness: a record keyed by its key field although an earlier field holds
\* "@", next to a record without key field with two different "@" fields.
C8_Witness ==
    /\ call.op = "reindex_user_data" /\ call.key = None
    /\ \E i, j \in 1..Len(call.user_data.rows) :
          LET r == call.user_data.rows[i].r
              q == call.user_data.rows[j].r
          IN  /\ Has(r, "key") /\ HasAt(r) /\ r[FirstAt(r)].n # "key"
              /\ FirstAt(r) < CHOOSE n \in 1..Len(r) : r[n].n = "key"
              /\ ~Has(q, "key")
              /\ \E m, n \in 1..Len(q) :
                    ContainsAt(q[m].v) /\ ContainsAt(q[n].v) /\ q[m].v # q[n].v
    /\ Len(call.ret.rows) = 2

\* a record keyed by the fallback (c): no key field, no field holding "@"
Fallback(r) == ~Has(r, "key") /\ ~HasAt(r)

\* C9: a record with no key field and no field holding "@" is keyed by the
\* value of its first field, so two such records with different first fields
\* receive different keys.
C9_FallbackKeyIsFirstField ==
    (call.op = "reindex_user_data" /\ call.key = None /\ AllDicts(call.user_data)) =>
        LET records == Records(call.user_data)
        IN  /\ \A i \in 1..Len(records) :
                  Fallback(records[i])
                      => MapsKey(call.ret, StrOf(records[i][1].v), records[i],
                                 i = Len(records))
            /\ \A i, j \in 1..Len(records) :
                  (Fallback(records[i]) /\ Fallback(records[j])
                       /\ records[i][1].v # records[j][1].v)
                      => \E m, n \in 1..Len(call.ret.rows) :
                            /\ m # n
                            /\ call.ret.rows[m].r = records[i]
                            /\ call.ret.rows[n].r = records[j]

(***************************************************************************)
(* Claims about the compile pipeline, checked under Spec.                  *)
(***************************************************************************)
\* the eligible users of the section computed last: its target_users
EligibleUsers ==
    Records(unindex_data(
        IF last.op = "group" THEN group_target_users(last.cfg, _users)
        ELSE channel_target_users(last.cfg, _users, _groups)))

RECURSIVE TotalUsers(_, _)
\* the number of memberships of the entities out[1..n]
TotalUsers(out, n) == IF n = 0 THEN 0 ELSE Len(out[n].users) + TotalUsers(out, n - 1)

\* the users that are members of some entity of out
Members(out) == UNION {Elems(out[n].users) : n \in 1..Len(out)}

\* C1: the Groups (Channels) computed from one section hold together exactly
\* the section's eligible users, and every eligible user is a member of
\* exactly one of them.
C1_PartitioningComplete ==
    last.op \in {"group", "channel"} =>
        /\ Members(last.out) = Elems(EligibleUsers)
        /\ \A u \in Elems(EligibleUsers) :
              Cardinality({n \in 1..Len(last.out) : u \in Elems(last.out[n].users)}) = 1
        /\ TotalUsers(last.out, Len(last.out)) = Len(EligibleUsers)

\* C1 witness: a channels section with group globs expanded into several
\* Channels, one of them with several members.
C1_Witness ==
    /\ last.op = "channel"
    /\ last.cfg.groups # NoneValue
    /\ Len(last.out) >= 2
    /\ \E n \in 1..Len(last.out) : Len(last.out[n].users) >= 2

\* C2: a groups section yields one Group per distinct rendering of its name
\* against an eligible user, named by that rendering, whose users are the
\* eligible users rendering to it, in their order in the eligible set.
C2_GroupsPartitionByRenderedName ==
    last.op = "group" =>
        LET NameOf(u) == render_jinja2(last.cfg.name, u, _vars)
            names == {NameOf(EligibleUsers[i]) : i \in 1..Len(EligibleUsers)}
        IN  /\ {last.out[n].name : n \in 1..Len(last.out)} = names
            /\ Len(last.out) = Cardinality(names)
            /\ \A n \in 1..Len(last.out) :
                  last.out[n].users =
                      SelectSeq(EligibleUsers, LAMBDA u : NameOf(u) = last.out[n].name)

\* C2 witness: a templated name that splits the directory into several
\* Groups, one of them with several users.
C2_Witness ==
    /\ last.op = "group"
    /\ "{{" \in Elems(last.cfg.name)
    /\ Len(last.out) >= 2
    /\ \E n \in 1..Len(last.out) : Len(last.out[n].users) >= 2

\* the Groups whose name matches some glob of the channels section computed last
MatchingGroups ==
    {m \in 1..Len(_groups) :
        \E g \in 1..Len(group_globs_of(last.cfg)) :
            fnmatch(_groups[m].name, group_globs_of(last.cfg)[g])}

\* C3: the Channels of a section with group globs and no filter hold every
\* member of every matching Group, no user of non-matching Groups only, and
\* each user once.
C3_GlobbedMembers ==
    (last.op = "channel" /\ last.cfg.groups # NoneValue /\ last.cfg.filter = NoFilter) =>
        /\ \A m \in MatchingGroups : Elems(_groups[m].users) \subseteq Members(last.out)
        /\ \A u \in Members(last.out) :
              \E m \in MatchingGroups : u \in Elems(_groups[m].users)
        /\ TotalUsers(last.out, Len(last.out)) = Cardinality(Members(last.out))

HasKey(data, k) == \E i \in 1..Len(data.rows) : data.rows[i].k = k

RowOf(data, k) == data.rows[CHOOSE i \in 1..Len(data.rows) : data.rows[i].k = k].r

RECURSIVE MergedEntry(_, _)
\* the default merge of the records the first n sources hold for key k, taken
\* in declaration order (NoneRecord when none holds it)
MergedEntry(k, n) ==
    IF n = 0 THEN NoneRecord
    ELSE IF ~HasKey(loaded[n], k) THEN MergedEntry(k, n - 1)
    ELSE merge_dict(MergedEntry(k, n - 1), RowOf(loaded[n], k), FALSE).value

\* C4: the directory holds one entry per canonical key of the sources loaded,
\* and the entry of a key is the default merge, in declaration order, of the
\* records the sources hold for it.
C4_DirectoryIsMergeOfSources ==
    pc # "idle" =>
        /\ \A i, j \in 1..Len(_users.rows) :
              _users.rows[i].k = _users.rows[j].k => i = j
        /\ {_users.rows[i].k : i \in 1..Len(_users.rows)}
               = UNION {{loaded[n].rows[i].k : i \in 1..Len(loaded[n].rows)} :
                          n \in 1..Len(loaded)}
        /\ \A i \in 1..Len(_users.rows) :
              _users.rows[i].r = MergedEntry(_users.rows[i].k, Len(loaded))

\* C4 witness: a key held by two sources whose entry is neither source's
\* record: it keeps a field of the first and gains a list field of the second.
C4_Witness ==
    /\ Len(loaded) = 2
    /\ \E i \in 1..Len(_users.rows) :
          LET k == _users.rows[i].k
              r == _users.rows[i].r
          IN  /\ HasKey(loaded[1], k) /\ HasKey(loaded[2], k)
              /\ r # RowOf(loaded[1], k) /\ r # RowOf(loaded[2], k)
              /\ \E f \in Names(r) : ~Has(RowOf(loaded[2], k), f)
              /\ \E f \in Names(r) : ~Has(RowOf(loaded[1], k), f) /\ Get(r, f).t = "list"

ReferencedFields(p) ==
    {p[i + 1] : i \in {j \in 1..(Len(p) - 2) :
                          p[j] = "{{" /\ p[j + 2] = "}}" /\ p[j + 1] \notin Numerals}}

\* C11: rendering a name template against a user that lacks a field the
\* template refers to fails: no Group or Channel is ever produced with a
\* member lacking a field its name template refers to (its name would hold
\* the empty string in the reference's place).
C11_MissingFieldIsAnError ==
    last.op \in {"group", "channel"} =>
        \A n \in 1..Len(last.out) : \A u \in Elems(last.out[n].users) :
            \A f \in ReferencedFields(last.cfg.name) : Has(u, f)

(***************************************************************************)
(* Claims about UserSourceConfig.load, checked under SpecLoad.             *)
(***************************************************************************)
\* the record satisfies the filter query
Satisfies(r, filter_query) == Has(r, filter_query.f) /\ Get(r, filter_query.f) = filter_query.v

\* what load returns for the section without its filter
Unfiltered ==
    post_process([call.userconfig EXCEPT !.filter = NoFilter],
                 load_contents(call.userconfig), call.vars, call.alternate_emails).data

\* C12: the records a users section with a filter contributes are exactly
\* its loaded records that satisfy the filter, with or without fields or key.
C12_SourceFilterApplied ==
    (call.op = "load" /\ call.userconfig.filter # NoFilter) =>
        Elems(Records(call.ret))
            = {r \in Elems(Records(Unfiltered)) : Satisfies(r, call.userconfig.filter)}

(***************************************************************************)
(* Claims about the construction of sections, checked under SpecParse.     *)
(***************************************************************************)
\* the section satisfies the schema of its class: every required entry has a
\* member present, every key is a required or an optional one
SchemaHolds(cls, value) ==
    /\ \A n \in 1..Len(required_of(cls)) :
          \E f \in Elems(required_of(cls)[n]) : f \in Names(value)
    /\ Names(value) \subseteq
           UNION {Elems(required_of(cls)[n]) : n \in 1..Len(required_of(cls))}
               \cup Elems(optional_of(cls))

\* C13: a section whose filter is not a well-formed query is reported when
\* the section is constructed, whatever its class.
C13_InvalidFilterReportedAtConstruction ==
    (/\ call.op = "construct"
     /\ Has(call.value, "filter")
     /\ ~parseable_yaql(Get(call.value, "filter").s)) => call.ret.raised # ""

\* C15 as stated: the construction of a section succeeds if and only if the
\* section satisfies the schema of its class.
C15_ConstructionSucceedsIffSchema ==
    call.op = "construct" => (call.ret.raised = "" <=> SchemaHolds(call.cls, call.value))

\* C15, amended: the construction raises the configuration error
\* (SlacktivateConfigError) if and only if the section violates the schema of
\* its class, and a construction that succeeds is that of a section
\* satisfying it.
C15_SchemaErrorIffSchemaViolated ==
    call.op = "construct" =>
        /\ call.ret.raised = "SlacktivateConfigError" <=> ~SchemaHolds(call.cls, call.value)
        /\ call.ret.raised = "" => SchemaHolds(call.cls, call.value)

\* C15 witness: a users section with both alternatives of a required set is
\* built, and one with an unknown key is refused by name.
C15_Witness ==
    /\ call.op = "construct" /\ call.cls = "UserSourceConfig"
    /\ \/ /\ Has(call.value, "file") /\ Has(call.value, "contents")
          /\ call.ret.raised = ""
       \/ /\ Has(call.value, "type") /\ Has(call.value, "contents")
          /\ Has(call.value, "color")
          /\ call.ret = [raised |-> "SlacktivateConfigError", field |-> <<"color">>]

(***************************************************************************)
(* Further claims about the compile pipeline, checked under Spec.          *)
(***************************************************************************)
\* C14: every Channel of a channels section carries a boolean private flag,
\* true exactly when the section declares private as true, so that
\* channels_ensure creates as private exactly the channels declared so.
C14_PrivateFlagIsDeclaredPrivacy ==
    last.op = "channel" =>
        \A n \in 1..Len(last.out) :
            /\ last.out[n].private # NoneValue => last.out[n].private.t = "bool"
            /\ channel_is_private(last.out[n]) <=> last.cfg.private = Str(<<"true">>)

(***************************************************************************)
(* Further claims about reindex_user_data, checked under SpecKey.          *)
(***************************************************************************)
\* the key computed for the i-th record of the call
ComputedKey(i) == pick_key(Records(call.user_data)[i], call.key)

\* C16: reindex_user_data returns the mapping from computed key to record
\* over all records (a key computed twice maps to the later record), except
\* that when some computed key is None the original collection is returned
\* unchanged.
C16_ReindexAllOrNothing ==
    call.op = "reindex_user_data" =>
        LET records == Records(call.user_data)
        IN  IF \E i \in 1..Len(records) : ComputedKey(i) = None
            THEN call.ret = call.user_data
            ELSE /\ call.ret.keyed
                 /\ {call.ret.rows[j].k : j \in 1..Len(call.ret.rows)}
                        = {ComputedKey(i) : i \in 1..Len(records)}
                 /\ \A j, m \in 1..Len(call.ret.rows) :
                        call.ret.rows[j].k = call.ret.rows[m].k => j = m
                 /\ \A i \in 1..Len(records) :
                        MapsKey(call.ret, ComputedKey(i), records[i],
                                \A m \in (i + 1)..Len(records) : ComputedKey(m) # ComputedKey(i))

\* C16 witness: a dict that has a key, next to a str that has none: the list
\* comes back as it was.
C16_Witness ==
    /\ call.op = "reindex_user_data"
    /\ Len(call.user_data.rows) = 2
    /\ \E i, j \in 1..2 : /\ ComputedKey(i) = None
                          /\ ComputedKey(j) # None /\ IsDict(call.user_data.rows[j].r)
    /\ call.ret = call.user_data /\ ~call.ret.keyed

(***************************************************************************)
(* Further claims about UserSourceConfig.load, checked under SpecLoad.     *)
(***************************************************************************)
\* the row of the alias table, as the call received it, that the email of a
\* loaded record belongs to (as written or lowercased); 0 for none
AliasRowOf(r) ==
    IF Has(r, "email") /\ Get(r, "email").t = "str"
    THEN ae_lookup(call.alternate_emails, Get(r, "email").s)
    ELSE 0

\* C17: after post-processing, a loaded record whose email is a known alias
\* has for email the first member of its alias group and for
\* alternate_emails the group's alias list; any other record is unchanged.
\* (Stated for sections without key and fields, whose records come back one
\* for one.)
C17_AliasResolution ==
    (call.op = "load" /\ call.userconfig.key = None /\ call.userconfig.fields = NoFields) =>
        LET loaded_records == call.userconfig.contents
            out == Records(call.ret)
            rows == call.alternate_emails.rows
        IN  /\ Len(out) = Len(loaded_records)
            /\ \A i \in 1..Len(loaded_records) :
                  IF AliasRowOf(loaded_records[i]) = 0 THEN out[i] = loaded_records[i]
                  ELSE /\ Get(out[i], "email") = Str(rows[AliasRowOf(loaded_records[i])][1])
                       /\ Get(out[i], "alternate_emails")
                              = List(rows[AliasRowOf(loaded_records[i])])

\* what load returns for the section without its fields and its filter: the
\* records as they are before any derived field is applied
BeforeFields ==
    post_process([call.userconfig EXCEPT !.fields = NoFields, !.filter = NoFilter],
                 load_contents(call.userconfig), call.vars, call.alternate_emails).data

\* the previous value of a field as a list
PreviousList(r, f) ==
    IF ~Has(r, f) THEN <<>>
    ELSE IF Get(r, f).t = "str" THEN <<Get(r, f).s>> ELSE Get(r, f).l

\* out is the record b with the derived fields of the call applied
IsExpansion(out, b) ==
    LET fields == call.userconfig.fields
    IN  /\ Names(out) = Names(b) \cup Names(fields)
        /\ \A f \in Names(b) \ Names(fields) : Get(out, f) = Get(b, f)
        /\ \A i \in 1..Len(fields) :
              IF fields[i].v.t = "str"
              THEN Get(out, fields[i].n) = Str(render_jinja2(fields[i].v.s, b, call.vars))
              ELSE Get(out, fields[i].n)
                       = List(PreviousList(b, fields[i].n)
                                \o [k \in 1..Len(fields[i].v.l) |->
                                       render_jinja2(fields[i].v.l[k], b, call.vars)])

\* C18: every record of a section with fields holds, for a field declared as
\* one template, its rendering, and for a field declared as a list of
\* templates, the field's previous value as a list followed by the
\* renderings in order; every template is rendered against the record as it
\* was before any derived field was applied.
C18_DerivedFields ==
    (call.op = "load" /\ call.userconfig.fields # NoFields) =>
        /\ \A j \in 1..Len(call.ret.rows) :
              \E i \in 1..Len(BeforeFields.rows) :
                  IsExpansion(call.ret.rows[j].r, BeforeFields.rows[i].r)
        /\ call.userconfig.filter = NoFilter =>
              /\ Len(call.ret.rows) = Len(BeforeFields.rows)
              /\ \A i \in 1..Len(call.ret.rows) :
                    IsExpansion(call.ret.rows[i].r, BeforeFields.rows[i].r)

\* C18 witness: a record whose role is replaced by a literal while its list
\* of tags, a string before, gains the rendering of the role it had.
C18_Witness ==
    /\ call.op = "load"
    /\ call.userconfig.fields # NoFields
    /\ \E j \in 1..Len(call.ret.rows) :
          /\ Get(call.ret.rows[j].r, "role") = Str(<<"staff">>)
          /\ Get(call.ret.rows[j].r, "tags")
                 = List(<< <<"grader">>, <<"ta">>, <<"t", "-", "cos">> >>)

(***************************************************************************)
(* Claims about the selection of a snapshot, checked under SpecFile.       *)
(***************************************************************************)
\* C19: of the files a locator matches exactly one is read, one of highest
\* modification time when sort is newest or absent and one of lowest when
\* sort is oldest, whatever the names; no record of another file is loaded.
C19_SnapshotSelection ==
    call.op = "load_file" =>
        \E i \in 1..Len(call.files) :
            /\ Records(call.ret) = call.files[i].records
            /\ \A j \in 1..Len(call.files) :
                  /\ j # i => Elems(call.files[j].records) \cap Elems(Records(call.ret)) = {}
                  /\ IF call.userconfig.sort = <<"oldest">>
                     THEN call.files[i].mtime <= call.files[j].mtime
                     ELSE call.files[i].mtime >= call.files[j].mtime

\* C19 witness: three files of distinct modification times, sort oldest; the
\* file read is the oldest, which is neither the first by name nor the first
\* the file system lists.
C19_Witness ==
    /\ call.op = "load_file"
    /\ call.userconfig.sort = <<"oldest">>
    /\ Len(call.files) = 3
    /\ \A i, j \in 1..3 : call.files[i].mtime = call.files[j].mtime => i = j
    /\ \E i \in 2..3 : /\ call.files[i].mtime = 1
                       /\ call.files[i].name = "c"
                       /\ Records(call.ret) = call.files[i].records

(***************************************************************************)
(* The order of compilation, checked under Spec.                           *)
(***************************************************************************)
\* C20: a source is loaded and merged only while no groups or channels
\* section has been expanded, a groups section is expanded only while no
\* channels section has been, each against the directory of all the sources;
\* the groups and channels lists grow by each section's outputs, in order,
\* and a channels section is expanded against the list of all the Groups.
C20_CompileOrdering ==
    [][ /\ last'.op = "load" =>
              /\ last.op \in {"init", "load"}
              /\ _groups = <<>> /\ _channels = <<>>
              /\ _groups' = _groups /\ _channels' = _channels
        /\ last'.op = "group" =>
              /\ last.op \in {"init", "load", "group"}
              /\ _channels = <<>> /\ _channels' = _channels
              /\ _users' = _users
              /\ last'.out = compute_group(last'.cfg, _users, _vars)
              /\ _groups' = _groups \o last'.out
        /\ last'.op = "channel" =>
              /\ _users' = _users /\ _groups' = _groups
              /\ last'.out = compute_channel(last'.cfg, _users, _groups, _vars)
              /\ _channels' = _channels \o last'.out
      ]_vars

\* C20 witness: a compilation of two sources, a groups section and a
\* channels section that selects members through the Groups.
C20_Witness ==
    /\ last.op = "channel" /\ last.n = 4
    /\ Len(loaded) = 2
    /\ Len(_groups) >= 2
    /\ last.cfg.groups # NoneValue
    /\ Len(last.out) >= 1 /\ Len(_channels) >= 1

(***************************************************************************)
(* Claims of the last series about the compile pipeline, checked under     *)
(* Spec.                                                                   *)
(***************************************************************************)
\* C30: a groups or channels section without eligible users produces no
\* Group or Channel at all, also when its name is a literal, and every Group
\* or Channel produced has at least one member.
C30_EmptyExpansion ==
    last.op \in {"group", "channel"} =>
        /\ Len(EligibleUsers) = 0 => last.out = <<>>
        /\ \A n \in 1..Len(last.out) : Len(last.out[n].users) >= 1

\* C30 witness: a channels section of literal name whose globs match no
\* Group, over a directory and a list of Groups that are not empty.
C30_Witness ==
    /\ last.op = "channel"
    /\ "{{" \notin Elems(last.cfg.name)
    /\ last.cfg.groups # NoneValue
    /\ Len(_users.rows) >= 1 /\ Len(_groups) >= 1
    /\ MatchingGroups = {}
    /\ last.out = <<>>

(***************************************************************************)
(* Claims of the last series about UserSourceConfig.load, checked under    *)
(* SpecLoad.                                                               *)
(***************************************************************************)
\* C29: post-processing the records of a source leaves the alias table as it
\* was loaded from the alternate_emails setting: every alias group keeps
\* exactly its members.
C29_AliasTableUnchanged ==
    call.op = "load" => call.table = call.alternate_emails

(***************************************************************************)
(* Claims about the compiled model and its properties, checked under       *)
(* SpecConfig.                                                             *)
(***************************************************************************)
\* equality of two strings up to the case of their letters
SameIgnoringCase(a, b) ==
    /\ Len(a) = Len(b)
    /\ \A i \in 1..Len(a) :
          \/ a[i] = b[i]
          \/ \E k \in 1..Len(Uppers) : {a[i], b[i]} = {Uppers[k], Lowers[k]}

\* the value a settings entry of the document is to be exposed with
Typed(v) ==
    IF v.t = "str" /\ SameIgnoringCase(v.s, <<"t", "r", "u", "e">>) THEN PyTrue
    ELSE IF v.t = "str" /\ SameIgnoringCase(v.s, <<"f", "a", "l", "s", "e">>) THEN PyFalse
    ELSE v

\* C24: the settings property exposes an entry of the document that is a
\* string equal, case-insensitively, to "true" or "false" as the boolean
\* True or False, and every other entry with the value the document gave it.
C24_SettingsTyping ==
    (call.op = "read" /\ call.prop = "settings") =>
        /\ Len(call.read) = Len(last.document.settings)
        /\ \A i \in 1..Len(call.read) :
              /\ call.read[i].n = last.document.settings[i].n
              /\ call.read[i].v = Typed(last.document.settings[i].v)

C24_Witness ==
    /\ call.op = "read" /\ call.prop = "settings"
    /\ Len(call.read) = 2
    /\ last.document.settings[1].v = Str(<<"T", "r", "u", "E">>)
    /\ call.read[1].v = PyTrue
    /\ last.document.settings[2].v = Str(<<"T", "r", "u", "e", "s">>)
    /\ call.read[2].v = Str(<<"T", "r", "u", "e", "s">>)

\* C21: whatever a caller does to the values the properties users, groups,
\* channels and settings returned, every read of a property returns what
\* its first read returned.
C21_ReadsAreStable ==
    call.op = "read" => call.read = call.first[call.prop].val

C21_Witness ==
    /\ call.op = "read" /\ call.prop = "groups"
    /\ "groups" \in call.mutated
    /\ call.ret.obj = call.read
    /\ Len(call.read) >= 2

\* C22: a second compilation of a specification, of the document parsed
\* again or of the config_data object compiled before, yields the users
\* (keys, records, key order), the groups and the channels (names, members,
\* member order) of the first.
C22_CompileIdempotent ==
    (last.op = "compile" /\ last.n = 2) =>
        <<_users, _groups, _channels>> = last.first

C22_Witness ==
    /\ last.op = "compile" /\ last.n = 2
    /\ _config.settings # last.document.settings
    /\ Len(_users.rows) >= 2
    /\ Len(_groups) >= 2
    /\ Len(_channels) >= 2
    /\ call = NoRead

(***************************************************************************)
(* Claims about find_jinja2_template_fields, checked under SpecDiscover.   *)
(***************************************************************************)
\* a record that supplies exactly the fields discovered: a str for each
SupplyingRecord(fields) ==
    [n \in 1..Len(SelectSeq(fields, LAMBDA f : f # "vars")) |->
        [n |-> SelectSeq(fields, LAMBDA f : f # "vars")[n], v |-> Str(<<"v">>)]]

\* the vars, given when the discovery reported them
SupplyingVars(fields) ==
    IF "vars" \in Elems(fields) THEN <<E("X", Str(<<"cos">>))>> ELSE NoneRecord

\* C23: a pattern rendered against a record that supplies exactly the
\* fields find_jinja2_template_fields returned for it raises no missing-field
\* error, and the discovery reports no field twice.
C23_DiscoveryRoundTrip ==
    call.op = "find_jinja2_template_fields" =>
        /\ render_strict(call.jinja2_pattern, 1, SupplyingRecord(call.ret),
                         SupplyingVars(call.ret)).raised = ""
        /\ \A i, j \in 1..Len(call.ret) : call.ret[i] = call.ret[j] => i = j

(***************************************************************************)
(* Claims about the provisioning macros, checked under SpecProvision.      *)
(***************************************************************************)
\* the users of the workspace the macro was called on
UsersBefore == {last.before.users[i] : i \in 1..Len(last.before.users)}

\* the records of the configured users
ConfiguredUsers == {_users.rows[i].r : i \in 1..Len(_users.rows)}

\* C25: users_deactivate selects exactly the cached users of the workspace
\* that are not bots and whose email is, compared case-insensitively, the
\* email of no configured user; only the active ones under only_active.
C25_DeactivateSelection ==
    last.op = "users_deactivate" =>
        {last.ret[i].id : i \in 1..Len(last.ret)} =
            {u.id : u \in {w \in UsersBefore :
                /\ ~Contains(w.email, SLACK_BOTS_DOMAIN)
                /\ \A r \in ConfiguredUsers : ~SameIgnoringCase(w.email, email_of(r))
                /\ last.only_active => w.active}}

\* C26: a macro called with dry_run issues no call that changes the
\* workspace: the workspace and the calls issued are as they were.
C26_DryRunNoEffect ==
    (last.op \in {"users_deactivate", "users_ensure", "groups_ensure", "channels_ensure"}
        /\ last.dry_run) => slack = last.before

C26_Witness ==
    /\ last.op = "channels_ensure" /\ last.dry_run
    /\ has(last.ret, <<"cohort">>) /\ has(last.ret, <<"tas">>)
    /\ get(last.ret, <<"cohort">>).exists
    /\ get(last.ret, <<"cohort">>).members_ids_to_invite # {}
    /\ get(last.ret, <<"cohort">>).member_ids_to_kick # {}
    /\ ~get(last.ret, <<"tas">>).exists
    /\ get(last.ret, <<"tas">>).members_ids_to_invite # {}
    /\ slack = last.before

\* the ids of the cached users among the members the channel of that name had
CurrentMembers(name) ==
    {m \in UNION {last.before.channels[i].members :
                     i \in {j \in 1..Len(last.before.channels) :
                               last.before.channels[j].name = name}} :
        \E u \in UsersBefore : u.id = m}

\* the ids of the cached users whose email is that of a configured member
\* of the channel
ConfiguredMembers(channel_def) ==
    {u.id : u \in {w \in UsersBefore :
        \E i \in 1..Len(channel_def.users) :
            SameIgnoringCase(w.email, email_of(channel_def.users[i]))}}

\* the ids of the cached users a configured member of the channel resolves to
ResolvableMembers(channel_def) ==
    {u.id : u \in {w \in UsersBefore :
        \E i \in 1..Len(channel_def.users) :
            w.email = Lower(email_of(channel_def.users[i]))}}

\* whether unspecified members are removed: the argument, or without it
\* unless the extend_channel_memberships setting is true
RemovesUnspecified ==
    IF last.argument = "None"
    THEN ~(Has(_config.settings, "extend_channel_memberships")
              /\ Get(_config.settings, "extend_channel_memberships") = PyTrue)
    ELSE last.argument = "True"

\* C27: for each configured channel channels_ensure reports a diff for, the
\* members to invite are the resolvable configured members not currently in
\* the channel; the members to kick are the current cached members not
\* configured when unspecified members are removed, none otherwise; the two
\* sets are disjoint and no configured member is kicked.
C27_MembershipDiff ==
    last.op = "channels_ensure" =>
        \A n \in 1..Len(_channels) :
            (has(last.ret, _channels[n].name) /\ get(last.ret, _channels[n].name).diffed) =>
                LET entry == get(last.ret, _channels[n].name)
                    current == CurrentMembers(_channels[n].name)
                    resolvable == ResolvableMembers(_channels[n])
                    configured == ConfiguredMembers(_channels[n])
                IN  /\ entry.members_ids_to_invite = resolvable \ current
                    /\ entry.member_ids_to_kick =
                           (IF RemovesUnspecified THEN current \ configured ELSE {})
                    /\ entry.members_ids_to_invite \cap entry.member_ids_to_kick = {}
                    /\ entry.member_ids_to_kick \cap configured = {}

(***************************************************************************)
(* Claims about slack_retry, checked under SpecRetry.                      *)
(***************************************************************************)
\* a rate-limiting error: status 429, or for a Web API error a payload with
\* ok false and error "ratelimited"
RateLimiting(err) ==
    /\ err.class \in {"SCIMApiError", "SlackApiError"}
    /\ \/ err.status_code = 429
       \/ /\ err.class = "SlackApiError"
          /\ err.data.ok = "false" /\ err.data.error = "ratelimited"

\* the seconds the retry-after header asks for, 20 without a header that
\* reads as an integer
SecondsAsked(err) ==
    IF Has(err.headers, "retry-after")
          /\ Get(err.headers, "retry-after").s \in {<<"5">>, <<"3", "0">>}
    THEN (IF Get(err.headers, "retry-after").s = <<"5">> THEN 5 ELSE 30)
    ELSE 20

\* C28: a wrapped call that raised is attempted again exactly when the error
\* is a rate-limiting error, after a wait of the seconds of the retry-after
\* header or of 20 seconds; any other error is raised to the caller, without
\* a wait; the attempts already made never end the retries.
C28_RetryPolicy ==
    call.op = "raise" =>
        /\ (call.outcome = "running") <=> RateLimiting(call.err)
        /\ (call.outcome # "running") => (call.outcome = "raised" /\ call.slept = 0)
        /\ (call.outcome = "running") => call.slept = SecondsAsked(call.err)

C28_Witness ==
    /\ call.op = "raise" /\ call.outcome = "running"
    /\ call.tries = MaxTries
    /\ call.err.class = "SlackApiError" /\ call.err.status_code = 200
    /\ call.err.data.ok = "false"
    /\ call.slept = 30

====
